---- MODULE Spec2Model ----
(***************************************************************************)
(* EasyRAG document ingestion: the two workflow engines of the repository. *)
(*                                                                         *)
(*  - MinerUWorkflow (EasyRAG/file_parser/workflow.py): six fixed steps,   *)
(*    resume_from, checkpoints in the Redis cache.  Specification Spec.    *)
(*  - BaseWorkflow with the WorkflowStep classes of                        *)
(*    EasyRAG/tasks/document_parsing_steps.py.  Specification SpecBase.    *)
(*                                                                         *)
(* Python exceptions are modelled as values: an operation that raises      *)
(* yields the name of the exception class, and the handlers of the code    *)
(* (except / finally) are part of the action that models the call.         *)
(***************************************************************************)
EXTENDS Integers, Sequences, FiniteSets, TLC

\* ------------------------------------------------------------------ bounds
\* number of execute() calls explored on the MinerU side
MaxRuns == 2
\* blocks in the content list the extractor returns for a document
MaxBlocks == 4
\* stand-in for the interpreter's recursion limit (sys.getrecursionlimit())
RecursionLimit == 2
\* chunk ids generate_uuid() may hand out
MaxChunks == 3
\* steps a caller may add_step() to a BaseWorkflow
MaxSteps == 2
\* number of BaseWorkflow.execute calls explored
MaxBaseRuns == 2
\* cap on the knowledge base's chunk_num counter
MaxKbChunkNum == 2
\* Celery submissions (AsyncResult ids handed out) explored
MaxTasks == 2
\* stand-in for TaskProcessorConfig.max_queue_size (1000)
MaxQueue == 2
\* restarts of the TaskProcessor process explored
MaxRestarts == 1

\* ------------------------------------------------------- program constants
\* workflow.py:778 / document_parsing_steps.py:534: expected vector length
VectorDim == 1024

\* ----------------------------------------------------------------- values
Docs == {"d1", "d2"}
NoDoc == "-"

\* workflow.py:28-35 WorkflowStep, in definition (= catalogue) order
Steps ==
  << "INIT", "GET_FILE_CONTENT", "PARSE_FILE", "EXTRACT_BLOCKS",
     "PROCESS_CHUNKS", "UPDATE_FINAL_STATUS" >>

StepNames == { Steps[i] : i \in 1..Len(Steps) }

\* workflow.py:19-25 StepStatus; "NONE" stands for a key missing from
\* self.step_status
StepStatus == {"PENDING", "RUNNING", "COMPLETED", "FAILED", "SKIPPED"}

\* resume_from as the caller may pass it: None, a step name, or another string
NoResume == "None"
ResumeInputs == StepNames \cup {NoResume, "BOGUS", ""}

\* the four checkpoint keys, f"<key>_{doc_id}"
CacheKeys == {"file_content", "parse_result", "block_info", "chunk_result"}

\* Python's None, also what get_cache returns for a missing key
None == [t |-> "None"]

\* ------------------------------------------------------------ content blocks
\* A block of the extractor's content list.  text is a sequence of
\* characters; emb is how the embedding provider answers a request for this
\* block's content: a vector of VectorDim floats, a vector of another
\* length, or an HTTP error (requests raises).
BlockTypes == {"text", "table", "equation", "image"}
Texts == { <<>>, <<" ">>, <<"a">>, <<" ", "a">> }
EmbAnswers == {"ok", "raises", "baddim"}
Blocks == [type : BlockTypes, text : Texts, emb : EmbAnswers]

TextOk == [type |-> "text", text |-> <<"a">>, emb |-> "ok"]
TextRaises == [type |-> "text", text |-> <<" ", "a">>, emb |-> "raises"]
TextBadDim == [type |-> "text", text |-> <<"a">>, emb |-> "baddim"]
BlankText == [type |-> "text", text |-> <<" ">>, emb |-> "ok"]
BlankTable == [type |-> "table", text |-> <<" ">>, emb |-> "ok"]
BlankEquation == [type |-> "equation", text |-> <<>>, emb |-> "ok"]

\* The content list the extractor produces from the stored file of a document,
\* MaxBlocks blocks each.  d1: text blocks, the first of which the embedding
\* provider rejects.  d2: a text block the provider answers with a vector of
\* the wrong length, a good text block, then blocks without content: a table
\* whose caption and body make up one space, a text block of one space, and
\* equations of no text.
FileBlocks(d) ==
  IF d = "d1"
  THEN [i \in 1..MaxBlocks |-> IF i = 1 THEN TextRaises ELSE TextOk]
  ELSE [i \in 1..MaxBlocks |->
          CASE i = 1 -> TextBadDim
            [] i = 2 -> TextOk
            [] i = 3 -> BlankTable
            [] i = 4 -> BlankText
            [] OTHER -> BlankEquation]

\* ------------------------------------------------------- redis_utils.py
\* _serialize_value / _deserialize_value: json.dumps(value, default=str) then
\* json.loads.  bytes are not JSON: default=str stores repr text, and the
\* reader gets a str back; a tuple comes back as a list.
serialize_value(v) ==
  CASE v.t = "bytes" -> [t |-> "json", of |-> "str", v |-> v.v]
    [] v.t = "tuple" -> [t |-> "json", of |-> "list", v |-> v.v]
    [] OTHER -> [t |-> "json", of |-> v.t, v |-> v.v]

deserialize_value(s) == [t |-> s.of, v |-> s.v]

\* RedisUtils.set_cache: store the serialized value under key
set_cache(c, d, key, v) == [c EXCEPT ![d][key] = serialize_value(v)]

\* RedisUtils.get_cache: the default (None) for a missing key
get_cache(c, d, key) ==
  IF c[d][key] = None THEN None ELSE deserialize_value(c[d][key])

\* RedisUtils.delete_cache: no error when the key is missing
delete_cache(c, d, key) == [c EXCEPT ![d][key] = None]

EmptyCache == [d \in Docs |-> [k \in CacheKeys |-> None]]

\* ---------------------------------------------- tasks/base_workflow.py values
\* the step classes of document_parsing_steps.py
StepClasses ==
  { "InitializeStep", "OCRStep", "GetFileContentStep", "ParseFileStep",
    "ExtractBlocksStep", "ProcessChunksStep", "UpdateFinalStatusStep" }

\* the names get_workflow_steps gives the steps, in its order
DefaultStepNames ==
  << "initialize", "get_file_content", "parse_file", "extract_blocks",
     "process_chunks", "update_final_status" >>

ConfigNames == { DefaultStepNames[i] : i \in 1..Len(DefaultStepNames) } \cup {"ocr"}

\* the step_name a caller of add_step gives an instance of the class
step_name_of(cls) ==
  CASE cls = "InitializeStep" -> "initialize"
    [] cls = "OCRStep" -> "ocr"
    [] cls = "GetFileContentStep" -> "get_file_content"
    [] cls = "ParseFileStep" -> "parse_file"
    [] cls = "ExtractBlocksStep" -> "extract_blocks"
    [] cls = "ProcessChunksStep" -> "process_chunks"
    [] OTHER -> "update_final_status"

\* WorkflowStep.__init__, base_workflow.py:24-33
NewStep(cls) == [cls |-> cls, name |-> step_name_of(cls), status |-> "PENDING"]

\* the custom_steps / step_names lists a custom workflow is built from
CustomStepLists == { << "initialize" >>, << "initialize", "get_file_content" >> }

\* a workflow that was not built from such a list
NotCustom == << "-" >>

\* workflow_config["steps"]: per step name, no entry ("absent") or an entry
\* whose "enabled" is True / False
DefaultConfig == [n \in ConfigNames |-> "absent"]
Configs ==
  { [n \in ConfigNames |-> IF n = "initialize" THEN a ELSE b] :
      a \in {"absent", "enabled", "disabled"}, b \in {"absent", "disabled"} }

\* the workflow context (a dict): NoDoc / FALSE / None / "absent" is a missing key
EmptyContext ==
  [ document_id |-> NoDoc, document |-> NoDoc, file_storage |-> FALSE,
    vector_database |-> FALSE, file_content |-> None, content_list |-> None,
    middle_json_content |-> "absent", block_info_list |-> None,
    chunk_count |-> None ]

\* contexts a caller passes to execute(): nothing, a document id, or (a
\* caller that drives steps added with add_step) a context that already
\* holds the loaded document, the parser's output for its file and possibly
\* a chunk count
InitialContexts ==
  {EmptyContext}
  \cup { [EmptyContext EXCEPT !.document_id = d] : d \in Docs }
  \cup { [EmptyContext EXCEPT !.document_id = "d1", !.document = "d1",
                               !.file_storage = TRUE, !.vector_database = TRUE,
                               !.middle_json_content = "full",
                               !.content_list = cl, !.chunk_count = cc] :
           cl \in {None, [t |-> "list", v |-> FileBlocks("d1")]},
           cc \in {None, [t |-> "int", v |-> 1]} }

\* the checkpoint keys present for a document
cached_keys(c, d) == { k \in CacheKeys : c[d][k] # None }

\* ------------------------------------------------------------- variables
VARIABLES
  \* MinerUWorkflow instance
  step_status,      \* self.step_status: doc -> step -> status or "NONE"
  doc_id,           \* self.doc_id, NoDoc while the attribute is not set
  doc_info,         \* the document whose doc_info the instance holds (INIT sets it)
  vector_database,  \* self.vector_database is not None
  \* the run in progress: execute()'s position and locals
  pc,
  resume_from,
  file_content,
  parse_result,
  block_info_list,
  chunk_idx,
  chunk_count,
  chunk_ids_list,
  result,           \* what the last execute() gave its caller
  \* external collaborators
  cache,            \* Redis: doc -> key -> serialized value or None
  bodies,           \* object storage: chunk ids whose body was written
  index,            \* vector index: chunk ids whose record was written
  next_uuid,        \* generate_uuid(): ids handed out so far
  \* observation (not program state)
  runs,             \* execute() calls so far
  calls,            \* per step: times its step function entered RUNNING in this run
  storage_reads,    \* get_file_content calls on object storage in this run
  ext_failed,       \* an external collaborator failed in this run
  parse_input,      \* the file_content value PARSE_FILE last worked on
  last,             \* summary of the last finished run
  prev,             \* summary of the run before the current one
  at_start,         \* how the current run began: on a new instance? which checkpoints existed?
  \* the progress callback
  callback,         \* self.callback: "none" or "supplied"
  cb_raised,        \* observation: the callback raised in this run
  cb_calls,         \* observation: invocations of the callback in this run
  status_changes    \* observation: changes of a step's status in this run

VARIABLES
  \* BaseWorkflow instance (tasks/base_workflow.py)
  workflow_config,    \* workflow_config["steps"]: step name -> absent / enabled / disabled
  steps,              \* self.steps: sequence of [cls, name, status]
  context,            \* self.context
  current_step_index, \* self.current_step_index
  is_cancelled,       \* self.is_cancelled
  wf_pc,              \* position inside BaseWorkflow.execute
  wf_i,               \* the for loop's position in self.steps (1-based)
  wf_result,          \* what the last BaseWorkflow.execute returned
  \* database rows
  documents,          \* Document rows: doc -> [status, chunk_num]
  kb_chunk_num,       \* KnowledgeBase.chunk_num
  \* observation (not program state)
  wf_runs,            \* BaseWorkflow.execute calls so far
  wf_before,          \* the steps' statuses when the current run began
  wf_started,         \* positions whose step was started (start()) in this run
  wf_progress,        \* update_progress values reported for the step last handled
  cancelled_at,       \* position of the step that was running when cancel() was called
  wf_broke,           \* the current run left its loop through `break`
  finalized,          \* completions of UpdateFinalStatusStep and the rows after the first
  built_from          \* the step list a custom workflow was built from

VARIABLES
  \* two MinerUWorkflow instances running side by side, one per document
  workflows,          \* doc -> its run: position, doc_info type, locals, self.temp_files
  tmp                 \* tempfile.gettempdir(): path -> the document whose bytes it holds

ParVars == << workflows, tmp >>

VARIABLES
  \* the service layer: RAGManager, DocumentViewModel and the Celery broker
  celery_queue,       \* messages on the broker: set of [id, args]
  tasks,              \* Task rows: task id -> [status, task_related_id]
  next_task_id,       \* the id the next AsyncResult gets (uuid in the code)
  \* observation (not program state)
  parse_reply,        \* what the last start_document_parse returned
  task_runs,          \* runs of parse_document_task by a Celery worker
  action_reply,       \* outcome of the last perform_document_action
  \* requests inside create_parse_document_task at the same time
  callers             \* request -> position, document, its Document instance

ServiceVars ==
  << celery_queue, tasks, next_task_id, parse_reply, task_runs, action_reply,
     callers >>

VARIABLES
  \* TaskProcessor (multi_thread_celery_main.py)
  task_queue,         \* self.task_queue: FIFO of task ids
  processing_tasks,   \* self.processing_tasks
  running,            \* self.running
  producer,           \* the producer thread: position, its query's rows, loop index
  recover,            \* _recover_running_tasks in the main thread: the same
  consumers,          \* consumer thread -> position and its Task instance
  restarts,           \* process restarts so far
  \* observation (not program state)
  to_recover,         \* the tasks whose persisted status was RUNNING at start()
  requeued            \* the tasks _recover_running_tasks has put on the queue

ProcVars ==
  << task_queue, processing_tasks, running, producer, recover, consumers,
     restarts, to_recover, requeued >>

\* everything outside the workflow classes
SideVars == << ParVars, ServiceVars, ProcVars >>

\* the BaseWorkflow side without the Document rows
BaseInstanceVars ==
  << workflow_config, steps, context, current_step_index, is_cancelled, wf_pc, wf_i,
     wf_result, kb_chunk_num, wf_runs, wf_before, wf_started,
     wf_progress, cancelled_at, wf_broke, finalized, built_from >>

BaseVars == << BaseInstanceVars, documents >>

EngineVars ==
  << step_status, doc_id, doc_info, vector_database, pc, resume_from,
     file_content, parse_result, block_info_list, chunk_idx, chunk_count,
     chunk_ids_list, result, runs, calls, storage_reads, ext_failed, parse_input,
     last, prev, at_start, callback, cb_raised, cb_calls, status_changes >>

vars == << EngineVars, BaseVars, SideVars, cache, bodies, index, next_uuid >>

\* ------------------------------------------------------------ small helpers
StepIndex(s) == (CHOOSE i \in 1..Len(Steps) : Steps[i] = s) - 1

Idle == [step |-> "-", at |-> "idle"]
Enter(s) == [step |-> s, at |-> "enter"]
Body(s) == [step |-> s, at |-> "body"]
Loop(s) == [step |-> s, at |-> "loop"]

NoResult == [kind |-> "none"]
Raised(e) == [kind |-> "raised", error |-> e]

Bytes(d) == [t |-> "bytes", v |-> d]

\* the files the _parse_* methods create in tempfile.gettempdir():
\* f"{doc_id}.pdf" (line 565) and "temp_excel.xlsx" (line 642)
TempPaths == { "d1.pdf", "d2.pdf", "temp_excel.xlsx" }

\* a document whose run has not been started: MinerUWorkflow.__init__ (63-68)
NotStarted ==
  [at |-> "idle", type |-> "-", file_content |-> None, parse_result |-> None,
   temp_files |-> {}, error |-> "", ext |-> FALSE, result |-> NoResult]

\* no UpdateFinalStatusStep has completed yet
NotFinalized ==
  [n |-> 0, document |-> NoDoc, chunk_count |-> 0, absent |-> FALSE,
   row |-> [status |-> "INIT", chunk_num |-> 0], kb |-> 0]

NoRun == [doc |-> NoDoc, status |-> [s \in StepNames |-> "NONE"], executed |-> {}]
RunSummary(d, ss, cs) ==
  [doc |-> d, status |-> ss[d], executed |-> {s \in StepNames : cs[s] > 0}]

\* the document kind recorded in doc_info["type"]
DocType(d) == IF d = "d1" THEN "pdf" ELSE "excel"

\* ------------------------------------------ MinerUWorkflow: step bookkeeping
\* enumerate(steps) search of _init_step_status: the 0-based index, -1 if absent
resume_index(r) == IF r \in StepNames THEN StepIndex(r) ELSE -1

\* `if resume_from:` (line 162): None and the empty string are false
truthy(r) == r \notin {NoResume, ""}

\* a variant that leaves the steps before the resume point PENDING
init_step_status_all_pending(ss, d, r) ==
  IF truthy(r) /\ resume_index(r) = -1
  THEN [exc |-> "ValueError", ss |-> ss]
  ELSE [exc |-> "", ss |-> [ss EXCEPT ![d] = [s \in StepNames |-> "PENDING"]]]

\* a variant that takes an unknown resume point for no resume point
init_step_status_ignoring_unknown(ss, d, r) ==
  IF truthy(r) /\ resume_index(r) # -1
  THEN [exc |-> "",
        ss |-> [ss EXCEPT ![d] =
                  [s \in StepNames |->
                     IF StepIndex(s) < resume_index(r)
                     THEN "COMPLETED" ELSE "PENDING"]]]
  ELSE [exc |-> "", ss |-> [ss EXCEPT ![d] = [s \in StepNames |-> "PENDING"]]]

\* _init_step_status, lines 158-218
init_step_status(ss, d, r) ==
  IF truthy(r)
  THEN IF resume_index(r) = -1
       THEN [exc |-> "ValueError", ss |-> ss]
       ELSE [exc |-> "",
             ss |-> [ss EXCEPT ![d] =
                       [s \in StepNames |->
                          IF StepIndex(s) < resume_index(r)
                          THEN "COMPLETED" ELSE "PENDING"]]]
  ELSE [exc |-> "", ss |-> [ss EXCEPT ![d] = [s \in StepNames |-> "PENDING"]]]

\* _should_execute_step
should_execute_step(ss, d, s) == ss[d][s] \in {"PENDING", "FAILED"}

\* _update_step_status (status only)
update_step_status(ss, d, s, st) == [ss EXCEPT ![d][s] = st]

\* _get_completed_steps: dict order is insertion order, which
\* _init_step_status makes the catalogue order
get_completed_steps(ss, d) ==
  SelectSeq(Steps, LAMBDA s : ss[d][s] = "COMPLETED")

\* the exception leaves execute(): except (log, no-op progress update), raise,
\* finally _cleanup_temp_files
RaiseOut(e, ss) ==
  /\ result' = Raised(e)
  /\ pc' = Idle
  /\ last' = RunSummary(doc_id, ss, calls)

\* a variant whose except clause in PROCESS_CHUNKS records FAILED and goes on
\* with the blocks
FailStep_going_on(s, e) ==
  /\ step_status' = update_step_status(step_status, doc_id, s, "FAILED")
  /\ IF s = "PROCESS_CHUNKS"
     THEN pc' = Loop(s) /\ UNCHANGED << result, last >>
     ELSE RaiseOut(e, update_step_status(step_status, doc_id, s, "FAILED"))

\* a step function's except clause: FAILED, re-raise
FailStep(s, e) ==
  /\ step_status' = update_step_status(step_status, doc_id, s, "FAILED")
  /\ RaiseOut(e, update_step_status(step_status, doc_id, s, "FAILED"))

NextPc(s) == Enter(Steps[StepIndex(s) + 2])

InstanceVars == << doc_id, doc_info, vector_database >>
LocalVars ==
  << file_content, parse_result, block_info_list, chunk_idx, chunk_count,
     chunk_ids_list, parse_input >>
StoreVars == << bodies, index, next_uuid >>
RunObs == << runs, storage_reads, ext_failed, prev, resume_from, at_start >>
CbVars == << callback, cb_raised, cb_calls, status_changes >>

\* a variant of the reporter that lets the callback's exception out
invoke_callback_propagating(cb, raises) ==
  IF cb # "none" /\ raises THEN "CallbackError" ELSE ""

\* _update_step_status, lines 248-257: `if self.callback and callable(...)`,
\* try: self.callback(...) except Exception: logging.warning(...).  The value
\* is the exception that leaves _update_step_status ("" for none) when the
\* callback raises or not.
invoke_callback(cb, raises) ==
  ""

\* n calls of _update_step_status, `changed` of which gave a step another
\* status; the callback, if supplied, is invoked in each and may raise
Reported(n, changed, raises) ==
  /\ cb_calls' = IF callback = "none" THEN cb_calls ELSE cb_calls + n
  /\ status_changes' = status_changes + changed
  /\ cb_raised' = (cb_raised \/ (raises /\ callback # "none" /\ n > 0))
  /\ UNCHANGED callback

\* the statuses _init_step_status overwrites with another value (a status
\* written for a key that did not exist is not counted)
reset_count(old, new) ==
  Cardinality({ s \in StepNames : old[s] # "NONE" /\ old[s] # new[s] })

\* ------------------------------------------------------ service-layer values
\* ids of Celery results / Task rows (uuid strings in the code)
TaskIds == 1..MaxTasks

\* no Task row with this id
NoTask == [status |-> "absent", task_related_id |-> NoDoc, instance_id |-> 0]

\* requests that may be inside create_parse_document_task at the same time
Callers == {"r1", "r2"}

\* a request holds no Document instance
NoRow == [status |-> "-", chunk_num |-> 0, progress |-> "-", progress_msg |-> ""]

\* a request that has not called create_parse_document_task
NoCall == [at |-> "idle", doc |-> NoDoc, document |-> NoRow, task_id |-> 0]

\* the consumer threads start() creates (config.consumer_threads of them)
Consumers == {"c1", "c2"}

\* a thread that is not inside a loop body
Waiting == [at |-> "wait", rows |-> <<>>, i |-> 1]
Off == [at |-> "off", rows |-> <<>>, i |-> 1]
Free == [at |-> "get", task_id |-> 0, row |-> NoTask]

\* RAGAction, rag_app/viewmodels.py:19-23, and a value outside it
RAGAction == {"start_parse", "stop_parse", "delete", "resume_parse"}
ActionInputs == RAGAction \cup {"bogus"}

\* the resume_from values start_document_parse is called with
ServiceResumes == {NoResume, "PARSE_FILE"}

\* progress_msg texts: rag_manager.py:97 and :381, viewmodels.py:299
MsgStartParse == "start parsing document"
MsgStopped == "parsing stopped"
MsgRefreshed == "document refreshed"

\* -------------------------------------------------------------- Init
Init ==
  /\ step_status = [d \in Docs |-> [s \in StepNames |-> "NONE"]]
  /\ doc_id = NoDoc
  /\ doc_info = NoDoc
  /\ vector_database = FALSE
  /\ pc = Idle
  /\ resume_from = NoResume
  /\ file_content = None
  /\ parse_result = None
  /\ block_info_list = None
  /\ chunk_idx = 0
  /\ chunk_count = 0
  /\ chunk_ids_list = <<>>
  /\ result = NoResult
  /\ cache = EmptyCache
  /\ bodies = {}
  /\ index = {}
  /\ next_uuid = 0
  /\ runs = 0
  /\ calls = [s \in StepNames |-> 0]
  /\ storage_reads = 0
  /\ ext_failed = FALSE
  /\ parse_input = None
  /\ last = NoRun
  /\ prev = NoRun
  /\ at_start = [new |-> TRUE, keys |-> {}]
  /\ callback = "none"
  /\ cb_raised = FALSE
  /\ cb_calls = 0
  /\ status_changes = 0
  /\ workflow_config = DefaultConfig
  /\ steps = <<>>
  /\ context = EmptyContext
  /\ current_step_index = 0
  /\ is_cancelled = FALSE
  /\ wf_pc = "idle"
  /\ wf_i = 1
  /\ wf_result = NoResult
  /\ documents = [d \in Docs |-> [status |-> "INIT", chunk_num |-> 0,
                                   progress |-> "init", progress_msg |-> ""]]
  /\ celery_queue = {}
  /\ tasks = [i \in TaskIds |-> NoTask]
  /\ next_task_id = 1
  /\ parse_reply = NoResult
  /\ task_runs = {}
  /\ action_reply = NoResult
  /\ callers = [c \in Callers |-> NoCall]
  /\ task_queue = <<>>
  /\ processing_tasks = {}
  /\ running = FALSE
  /\ producer = Waiting
  /\ recover = Off
  /\ consumers = [c \in Consumers |-> Free]
  /\ restarts = 0
  /\ to_recover = {}
  /\ requeued = {}
  /\ kb_chunk_num = 0
  /\ built_from = NotCustom
  /\ wf_runs = 0
  /\ wf_before = <<>>
  /\ wf_started = {}
  /\ wf_progress = <<>>
  /\ cancelled_at = 0
  /\ wf_broke = FALSE
  /\ finalized = NotFinalized
  /\ workflows = [d \in Docs |-> NotStarted]
  /\ tmp = [p \in TempPaths |-> NoDoc]

\* ------------------------------------------------ MinerUWorkflow.execute
\* execute(doc_id, ..., resume_from): lines 80-89, up to the first step
Execute(d, r, cb) ==
  /\ pc = Idle
  /\ runs < MaxRuns
  /\ callback' = cb
  /\ cb_raised' = FALSE
  /\ cb_calls' = 0
  /\ doc_id' = d
  /\ resume_from' = r
  /\ runs' = runs + 1
  /\ calls' = [s \in StepNames |-> 0]
  /\ storage_reads' = 0
  /\ ext_failed' = FALSE
  /\ prev' = last
  /\ at_start' = [new |-> doc_id = NoDoc, keys |-> cached_keys(cache, d)]
  /\ file_content' = None
  /\ parse_result' = None
  /\ block_info_list' = None
  /\ parse_input' = None
  /\ chunk_idx' = 0
  /\ chunk_count' = 0
  /\ chunk_ids_list' = <<>>
  /\ LET init == init_step_status(step_status, d, r)
     IN IF init.exc # ""
        THEN /\ result' = Raised(init.exc)
             /\ pc' = Idle
             /\ last' = RunSummary(d, step_status, calls')
             /\ status_changes' = 0
             /\ UNCHANGED step_status
        ELSE /\ step_status' = init.ss
             /\ status_changes' = reset_count(step_status[d], init.ss[d])
             /\ pc' = Enter(Steps[1])
             /\ result' = NoResult
             /\ UNCHANGED last
  /\ UNCHANGED << BaseVars, SideVars, doc_info, vector_database, cache, StoreVars >>

\* a new process constructs a new MinerUWorkflow (__init__, lines 63-68); the
\* Redis cache, object storage and the vector index live on
NewWorkflow ==
  /\ pc = Idle
  /\ doc_id # NoDoc
  /\ step_status' = [d \in Docs |-> [s \in StepNames |-> "NONE"]]
  /\ doc_id' = NoDoc
  /\ doc_info' = NoDoc
  /\ vector_database' = FALSE
  /\ result' = NoResult
  /\ callback' = "none"
  /\ UNCHANGED << BaseVars, SideVars, pc, LocalVars, cache, StoreVars, RunObs, calls, last,
                  cb_raised, cb_calls, status_changes >>

\* `if self._should_execute_step(X): self._execute_X_step(...)`: the step
\* function starts with _update_step_status(X, RUNNING)
StartStep ==
  /\ pc.at = "enter"
  /\ should_execute_step(step_status, doc_id, pc.step)
  /\ step_status' = update_step_status(step_status, doc_id, pc.step, "RUNNING")
  /\ calls' = [calls EXCEPT ![pc.step] = @ + 1]
  /\ \E raises \in BOOLEAN :
       /\ Reported(1, 1, raises)
       /\ IF invoke_callback(callback, raises) = ""
          THEN /\ pc' = Body(pc.step)
               /\ UNCHANGED << result, last >>
          ELSE \* the call is the step function's first statement, outside its try
               /\ result' = Raised(invoke_callback(callback, raises))
               /\ pc' = Idle
               /\ last' = RunSummary(doc_id, step_status', calls')
  /\ UNCHANGED << BaseVars, SideVars, InstanceVars, LocalVars, cache, StoreVars, RunObs >>

\* the else branches of execute (lines 94-129): the step is bypassed and its
\* output is read from the cache.  Unpacking None into several names raises
\* TypeError, outside every step function.
BypassStep ==
  /\ pc.at = "enter"
  /\ ~ should_execute_step(step_status, doc_id, pc.step)
  /\ LET s == pc.step
         got ==
           CASE s = "GET_FILE_CONTENT" -> get_cache(cache, doc_id, "file_content")
             [] s = "PARSE_FILE" -> get_cache(cache, doc_id, "parse_result")
             [] s = "EXTRACT_BLOCKS" -> get_cache(cache, doc_id, "block_info")
             [] s = "PROCESS_CHUNKS" -> get_cache(cache, doc_id, "chunk_result")
             [] OTHER -> None
         unpacks == s \in {"PARSE_FILE", "PROCESS_CHUNKS"}
     IN IF unpacks /\ got = None
        THEN /\ RaiseOut("TypeError", step_status)
             /\ UNCHANGED << LocalVars >>
        ELSE /\ pc' = NextPc(s)
             /\ file_content' = IF s = "GET_FILE_CONTENT" THEN got ELSE file_content
             /\ parse_result' = IF s = "PARSE_FILE" THEN got ELSE parse_result
             /\ block_info_list' = IF s = "EXTRACT_BLOCKS" THEN got ELSE block_info_list
             /\ chunk_count' = IF s = "PROCESS_CHUNKS" THEN got.v.chunk_count ELSE chunk_count
             /\ chunk_ids_list' = IF s = "PROCESS_CHUNKS" THEN got.v.chunk_ids ELSE chunk_ids_list
             /\ UNCHANGED << chunk_idx, parse_input, result, last >>
  /\ UNCHANGED << BaseVars, SideVars, step_status, InstanceVars, cache, StoreVars, RunObs, calls,
                  CbVars >>

\* _execute_init_step, lines 274-291; get_default_vector_database may raise
execute_init_step ==
  /\ pc = Body("INIT")
  /\ \E raises \in BOOLEAN : Reported(1, 1, raises)
  /\ doc_info' = doc_id
  /\ \E ok \in BOOLEAN :
       IF ok
       THEN /\ vector_database' = TRUE
            /\ step_status' = update_step_status(step_status, doc_id, "INIT", "COMPLETED")
            /\ pc' = NextPc("INIT")
            /\ UNCHANGED << result, last, ext_failed >>
       ELSE /\ FailStep("INIT", "Exception")
            /\ ext_failed' = TRUE
            /\ UNCHANGED vector_database
  /\ UNCHANGED << BaseVars, SideVars, doc_id, LocalVars, cache, StoreVars, runs, storage_reads, prev,
                  resume_from, at_start, calls >>

\* what _execute_get_file_content_step does to the cache on success:
\* _cache_file_content (313), then, after COMPLETED, _remove_file_content_cache (317)
get_file_content_caching(c, d) ==
  delete_cache(set_cache(c, d, "file_content", Bytes(d)), d, "file_content")

\* _execute_get_file_content_step, lines 298-322
execute_get_file_content_step ==
  /\ pc = Body("GET_FILE_CONTENT")
  /\ \E raises \in BOOLEAN : Reported(1, 1, raises)
  /\ storage_reads' = storage_reads + 1
  /\ \E got \in {"bytes", "empty", "raises"} :
       IF got = "bytes"
       THEN /\ cache' = get_file_content_caching(cache, doc_id)
            /\ step_status' =
                 update_step_status(step_status, doc_id, "GET_FILE_CONTENT", "COMPLETED")
            /\ file_content' = Bytes(doc_id)
            /\ pc' = NextPc("GET_FILE_CONTENT")
            /\ UNCHANGED << result, last, ext_failed >>
       ELSE /\ FailStep("GET_FILE_CONTENT", "Exception")
            /\ ext_failed' = TRUE
            /\ UNCHANGED << cache, file_content >>
  /\ UNCHANGED << BaseVars, SideVars, InstanceVars, parse_result, block_info_list, chunk_idx, chunk_count,
                  chunk_ids_list, parse_input, StoreVars, runs, prev, resume_from, at_start, calls >>

\* _parse_pdf / _parse_office_document / _parse_excel / _parse_visual: each
\* writes file_content to a file opened "wb" (f.write needs bytes: None or a
\* str raises TypeError), then calls the extractor, which may fail.  Excel
\* (line 651) returns an empty middle_json_content.
parse_outcomes(d, fc) ==
  IF DocType(d) \notin {"pdf", "word", "ppt", "txt", "md", "html", "excel", "visual"}
  THEN {[exc |-> "NotImplementedError", ext |-> FALSE, value |-> None]}
  ELSE IF fc.t # "bytes"
  THEN {[exc |-> "TypeError", ext |-> FALSE, value |-> None]}
  ELSE { [exc |-> "Exception", ext |-> TRUE, value |-> None],
         [exc |-> "", ext |-> FALSE,
          value |-> [t |-> "tuple",
                     v |-> [content_list |-> FileBlocks(fc.v),
                            middle_json |->
                              IF DocType(d) = "excel" THEN "empty" ELSE "full"]]] }

\* what _execute_parse_file_step does to the cache on success (348-349)
parse_file_caching(c, d, value) ==
  set_cache(delete_cache(c, d, "file_content"), d, "parse_result", value)

\* _execute_parse_file_step, lines 329-356
execute_parse_file_step ==
  /\ pc = Body("PARSE_FILE")
  /\ \E raises \in BOOLEAN : Reported(1, 1, raises)
  /\ parse_input' = file_content
  /\ \E o \in parse_outcomes(doc_id, file_content) :
       IF o.exc = ""
       THEN /\ cache' = parse_file_caching(cache, doc_id, o.value)
            /\ step_status' =
                 update_step_status(step_status, doc_id, "PARSE_FILE", "COMPLETED")
            /\ parse_result' = o.value
            /\ pc' = NextPc("PARSE_FILE")
            /\ UNCHANGED << result, last, ext_failed >>
       ELSE /\ FailStep("PARSE_FILE", o.exc)
            /\ ext_failed' = (ext_failed \/ o.ext)
            /\ UNCHANGED << cache, parse_result >>
  /\ UNCHANGED << BaseVars, SideVars, InstanceVars, file_content, block_info_list, chunk_idx, chunk_count,
                  chunk_ids_list, StoreVars, runs, storage_reads, prev, resume_from,
                  at_start, calls >>

\* self._extract_block_info(middle_json_content) at line 363 binds the method
\* of lines 541-547, which takes (middle_json_content, parse_config): a call
\* with nargs positional arguments other than 2 raises TypeError.  With 2 the
\* body calls _execute_extract_blocks_step with 2 arguments where it takes 1.
extract_block_info(nargs) ==
  IF nargs # 2
  THEN "TypeError"   \* missing positional argument parse_config
  ELSE "TypeError"   \* line 545/547: two arguments to a one-argument method

\* _execute_extract_blocks_step, lines 362-374
execute_extract_blocks_step ==
  /\ pc = Body("EXTRACT_BLOCKS")
  /\ \E raises \in BOOLEAN : Reported(1, 1, raises)
  /\ IF extract_block_info(1) = ""
     THEN \* lines 366-370: _remove_parse_result_cache(doc_id, block_info_list)
          \* is itself a call with one argument too many
          /\ FailStep("EXTRACT_BLOCKS", "TypeError")
     ELSE /\ FailStep("EXTRACT_BLOCKS", extract_block_info(1))
  /\ UNCHANGED << BaseVars, SideVars, InstanceVars, LocalVars, cache, StoreVars, RunObs, calls >>

\* _create_vector_index, lines 785-800: self.doc_info exists only once INIT
\* ran on this instance; self.vector_database is None until INIT set it;
\* create_index is a call to the vector search engine
create_vector_index_outcomes(di, vdb) ==
  IF di = NoDoc THEN {[exc |-> "AttributeError", ext |-> FALSE]}
  ELSE IF ~ vdb THEN {[exc |-> "AttributeError", ext |-> FALSE]}
  ELSE {[exc |-> "", ext |-> FALSE], [exc |-> "Exception", ext |-> TRUE]}

\* _execute_process_chunks_step, lines 383-393: up to the loop
execute_process_chunks_step ==
  /\ pc = Body("PROCESS_CHUNKS")
  /\ \E o \in create_vector_index_outcomes(doc_info, vector_database) :
       IF o.exc = ""
       THEN /\ chunk_count' = 0
            /\ chunk_ids_list' = <<>>
            /\ chunk_idx' = 0
            /\ pc' = Loop("PROCESS_CHUNKS")
            /\ UNCHANGED << step_status, result, last, ext_failed, CbVars >>
       ELSE /\ FailStep("PROCESS_CHUNKS", o.exc)
            /\ ext_failed' = (ext_failed \/ o.ext)
            /\ \E raises \in BOOLEAN : Reported(1, 1, raises)
            /\ UNCHANGED << chunk_count, chunk_ids_list, chunk_idx >>
  /\ UNCHANGED << BaseVars, SideVars, InstanceVars, file_content, parse_result, block_info_list, parse_input,
                  cache, StoreVars, runs, storage_reads, prev, resume_from, at_start,
                  calls >>

\* str.strip() on a sequence of characters
RECURSIVE lstrip(_)
lstrip(t) == IF t # <<>> /\ Head(t) = " " THEN lstrip(Tail(t)) ELSE t
RECURSIVE rstrip(_)
rstrip(t) ==
  IF t # <<>> /\ t[Len(t)] = " " THEN rstrip(SubSeq(t, 1, Len(t) - 1)) ELSE t
strip(t) == rstrip(lstrip(t))

\* _extract_text_content, lines 716-737: text and equation are stripped, a
\* table is caption + body as they are; an empty string gives None.  The
\* block's text stands for caption_str + table_body of a table.
extract_text_content(b) ==
  LET content ==
        CASE b.type \in {"text", "equation"} -> strip(b.text)
          [] b.type = "table" -> b.text
          [] OTHER -> <<>>
  IN IF content # <<>> THEN [t |-> "str", v |-> content] ELSE None

\* _get_chunk_info, lines 704-714: len(None) raises TypeError
get_chunk_info(i, bil) == IF bil.t = "None" THEN "TypeError" ELSE ""

\* a variant without the length check of lines 777-778
get_embedding_any_length(b) ==
  IF b.emb = "raises" THEN "HTTPError" ELSE ""

\* _get_embedding, lines 772-781: raise_for_status, then the length check
get_embedding(b) ==
  LET len == CASE b.emb = "ok" -> VectorDim
               [] b.emb = "baddim" -> VectorDim - 1
               [] OTHER -> -1
  IN IF b.emb = "raises" THEN "HTTPError"
     ELSE IF len # VectorDim THEN "ValueError" ELSE ""

\* a variant of _store_chunk that swallows what vector_database.index raises
store_chunk_ignoring_index(store) ==
  IF store = "fput_raises" THEN "raised" ELSE "returned"

\* _store_chunk, lines 803-846: fput_object (810-815), then
\* vector_database.index (842); either call may raise, and only when both
\* went through is the chunk id returned
store_chunk(store) ==
  IF store = "ok" THEN "returned" ELSE "raised"

\* the loop body of lines 394-424 for the block at chunk_idx; store is the
\* answer of object storage and of the vector index to _store_chunk
process_chunks_loop ==
  /\ pc = Loop("PROCESS_CHUNKS")
  /\ chunk_idx < Len(parse_result.v.content_list)
  /\ chunk_idx' = chunk_idx + 1
  \* lines 396-399: _update_step_status(PROCESS_CHUNKS, RUNNING, progress, ...)
  /\ \E raises \in BOOLEAN : Reported(1, 0, raises)
  /\ LET b == parse_result.v.content_list[chunk_idx + 1]
         content == extract_text_content(b)
     IN IF get_chunk_info(chunk_idx, block_info_list) # ""
        THEN UNCHANGED << chunk_count, chunk_ids_list, StoreVars, ext_failed >>
        ELSE IF b.type \in {"text", "table", "equation"} /\ content # None
        THEN IF get_embedding(b) # ""
             THEN UNCHANGED << chunk_count, chunk_ids_list, StoreVars, ext_failed >>
             ELSE /\ next_uuid < MaxChunks
                  /\ next_uuid' = next_uuid + 1
                  /\ \E store \in {"ok", "fput_raises", "index_raises"} :
                       /\ bodies' = IF store = "fput_raises" THEN bodies
                                    ELSE bodies \cup {next_uuid + 1}
                       /\ index' = IF store = "ok" THEN index \cup {next_uuid + 1}
                                   ELSE index
                       /\ chunk_ids_list' = IF store_chunk(store) = "returned"
                                            THEN Append(chunk_ids_list, next_uuid + 1)
                                            ELSE chunk_ids_list
                       /\ chunk_count' = IF store_chunk(store) = "returned"
                                         THEN chunk_count + 1
                                         ELSE chunk_count
                       /\ ext_failed' = (ext_failed \/ store # "ok")
        ELSE UNCHANGED << chunk_count, chunk_ids_list, StoreVars, ext_failed >>
  /\ UNCHANGED << BaseVars, SideVars, step_status, InstanceVars, pc, file_content, parse_result,
                  block_info_list, parse_input, result, cache, runs, storage_reads,
                  prev, resume_from, at_start, calls, last >>

\* lines 426-430: after the loop
process_chunks_done ==
  /\ pc = Loop("PROCESS_CHUNKS")
  /\ chunk_idx = Len(parse_result.v.content_list)
  /\ cache' = set_cache(cache, doc_id, "chunk_result",
                        [t |-> "tuple",
                         v |-> [chunk_count |-> chunk_count,
                                chunk_ids |-> chunk_ids_list]])
  /\ step_status' = update_step_status(step_status, doc_id, "PROCESS_CHUNKS", "COMPLETED")
  /\ \E raises \in BOOLEAN : Reported(1, 1, raises)
  /\ pc' = NextPc("PROCESS_CHUNKS")
  /\ UNCHANGED << BaseVars, SideVars, InstanceVars, LocalVars, result, StoreVars, RunObs, calls, last >>

\* _update_final_status (549-551) calls _execute_update_final_status_step
\* (436-446), which calls _update_final_status: the two recurse until the
\* interpreter raises RecursionError at depth RecursionLimit; every frame's
\* except clause marks the step FAILED and re-raises.
RECURSIVE update_final_status(_)
update_final_status(depth) ==
  IF depth >= RecursionLimit THEN "RecursionError" ELSE update_final_status(depth + 1)

\* _execute_update_final_status_step, then the return of execute (131-137)
execute_update_final_status_step ==
  /\ pc = Body("UPDATE_FINAL_STATUS")
  \* every nested frame reports RUNNING on entry (438) and FAILED in its
  \* except clause (445); only the first FAILED changes the status
  /\ \E raises \in BOOLEAN :
       IF update_final_status(0) = "" THEN Reported(1, 1, raises)
       ELSE Reported(2 * RecursionLimit + 1, 1, raises)
  /\ LET e == update_final_status(0)
         done == update_step_status(step_status, doc_id, "UPDATE_FINAL_STATUS",
                                    "COMPLETED")
     IN IF e = ""
        THEN /\ step_status' = done
             /\ result' = [kind |-> "returned", success |-> TRUE,
                           chunk_count |-> chunk_count, chunk_ids |-> chunk_ids_list,
                           completed_steps |-> get_completed_steps(done, doc_id)]
             /\ pc' = Idle
             /\ last' = RunSummary(doc_id, done, calls)
        ELSE FailStep("UPDATE_FINAL_STATUS", e)
  /\ UNCHANGED << BaseVars, SideVars, InstanceVars, LocalVars, cache, StoreVars, RunObs, calls >>

\* ------------------------------------- tasks/document_parsing_workflow.py
\* steps_config.get(name, {}).get("enabled", True)
step_enabled(cfg, name) == cfg[name] # "disabled"

\* DocumentParsingWorkflow.get_workflow_steps, lines 21-57.  The module
\* imports InitializeStep only (lines 5-9): constructing any other step class
\* raises NameError.
get_workflow_steps(cfg) ==
  IF \E i \in 2..Len(DefaultStepNames) : step_enabled(cfg, DefaultStepNames[i])
  THEN [exc |-> "NameError", steps |-> <<>>]
  ELSE [exc |-> "",
        steps |-> IF step_enabled(cfg, "initialize")
                  THEN << NewStep("InitializeStep") >> ELSE <<>>]

\* ---------------------------------------- tasks/document_parsing_steps.py
\* what a step's execute(context) does: exc is the exception it raises (""
\* when it returns the context), with the context, the cache and the database
\* rows as it leaves them
Outcome(e, ctx, c, docs, kb) ==
  [exc |-> e, context |-> ctx, cache |-> c, documents |-> docs, kb |-> kb]

\* InitializeStep.execute, lines 20-65: `from EasyRAG.task_app.models import
\* Document` (line 31) names a module without a Document
InitializeStep(ctx, c, docs, kb) ==
  IF ctx.document_id = NoDoc
  THEN {Outcome("ValueError", ctx, c, docs, kb)}
  ELSE {Outcome("ImportError", ctx, c, docs, kb)}

\* OCRStep.execute, lines 70-75
OCRStep(ctx, c, docs, kb) == {Outcome("", ctx, c, docs, kb)}

\* GetFileContentStep.execute, lines 81-116
GetFileContentStep(ctx, c, docs, kb) ==
  IF ctx.document = NoDoc \/ ~ ctx.file_storage
  THEN {Outcome("ValueError", ctx, c, docs, kb)}
  ELSE { Outcome("Exception", ctx, c, docs, kb),   \* storage raises
         Outcome("ValueError", ctx, c, docs, kb),  \* storage returns nothing
         Outcome("", [ctx EXCEPT !.file_content = Bytes(ctx.document)],
                 set_cache(c, ctx.document, "file_content", Bytes(ctx.document)),
                 docs, kb) }

\* ParseFileStep.execute, lines 122-160: every _parse_* method is called with
\* one positional argument more (context) than its def takes
ParseFileStep(ctx, c, docs, kb) ==
  IF ctx.document = NoDoc \/ ctx.file_content = None
  THEN {Outcome("ValueError", ctx, c, docs, kb)}
  ELSE IF DocType(ctx.document) \notin
            {"pdf", "word", "ppt", "txt", "md", "html", "excel", "visual"}
  THEN {Outcome("NotImplementedError", ctx, c, docs, kb)}
  ELSE {Outcome("TypeError", ctx, c, docs, kb)}

\* ExtractBlocksStep.execute, lines 322-348; _extract_block_info returns []
ExtractBlocksStep(ctx, c, docs, kb) ==
  IF ctx.middle_json_content # "full"
  THEN {Outcome("ValueError", ctx, c, docs, kb)}
  ELSE IF ctx.document = NoDoc
  THEN {Outcome("AttributeError", ctx, c, docs, kb)}
  ELSE {Outcome("", [ctx EXCEPT !.block_info_list = [t |-> "list", v |-> <<>>]],
                set_cache(c, ctx.document, "block_info", [t |-> "list", v |-> <<>>]),
                docs, kb)}

\* ProcessChunksStep.execute, lines 363-435: after the content_list check it
\* calls _create_vector_index, whose body (line 439) reads a name `context`
\* that is neither a parameter nor a global
ProcessChunksStep(ctx, c, docs, kb) ==
  IF ctx.content_list = None \/ ctx.content_list.v = <<>>
  THEN {Outcome("ValueError", ctx, c, docs, kb)}
  ELSE {Outcome("NameError", ctx, c, docs, kb)}

\* a variant whose cache clean-up forgets the file_content key
UpdateFinalStatusStep_keeps_file_content(ctx, c, docs, kb) ==
  IF ctx.document = NoDoc
  THEN {Outcome("ValueError", ctx, c, docs, kb)}
  ELSE LET d == ctx.document
           n == IF ctx.chunk_count = None THEN 0 ELSE ctx.chunk_count.v
       IN { Outcome("", ctx,
                    delete_cache(delete_cache(delete_cache(
                      c, d, "parse_result"), d, "block_info"), d, "chunk_result"),
                    [docs EXCEPT ![d] = [status |-> "COMPLETED", chunk_num |-> n]],
                    kb + n) }

\* UpdateFinalStatusStep.execute, lines 659-709.  document.save() and
\* knowledge_base.save() are database writes that may fail.
UpdateFinalStatusStep(ctx, c, docs, kb) ==
  IF ctx.document = NoDoc
  THEN {Outcome("ValueError", ctx, c, docs, kb)}
  ELSE LET d == ctx.document
           chunk_count_ == IF ctx.chunk_count = None THEN 0 ELSE ctx.chunk_count.v
           saved == [docs EXCEPT ![d] = [status |-> "COMPLETED",
                                         chunk_num |-> chunk_count_]]
           cleared ==
             delete_cache(delete_cache(delete_cache(delete_cache(
               c, d, "file_content"), d, "parse_result"), d, "block_info"),
               d, "chunk_result")
       IN { Outcome("Exception", ctx, c, docs, kb),    \* document.save() fails
            Outcome("Exception", ctx, c, saved, kb),   \* knowledge_base.save() fails
            Outcome("", ctx, cleared, saved, kb + chunk_count_) }

\* the update_progress values a step's execute reports on the path that ends
\* in outcome o: InitializeStep 22/42/60, OCRStep 73, GetFileContentStep
\* 83/96/109, ParseFileStep 124/135/153, ExtractBlocksStep 324/331/334/341,
\* ProcessChunksStep 365/377, UpdateFinalStatusStep 661/682/703
execute_progress(cls, ctx, o) ==
  CASE cls = "InitializeStep" -> << 10 >>
    [] cls = "OCRStep" -> << 10 >>
    [] cls = "GetFileContentStep" ->
         IF ctx.document = NoDoc \/ ~ ctx.file_storage THEN << 10 >>
         ELSE IF o.exc # "" THEN << 10, 30 >> ELSE << 10, 30, 80 >>
    [] cls = "ParseFileStep" ->
         IF o.exc = "ValueError" THEN << 10 >> ELSE << 10, 20 >>
    [] cls = "ExtractBlocksStep" ->
         IF o.exc = "ValueError" THEN << 10 >>
         ELSE IF o.exc # "" THEN << 10, 30, 60 >> ELSE << 10, 30, 60, 80 >>
    [] cls = "ProcessChunksStep" ->
         IF o.exc = "ValueError" THEN << 10 >> ELSE << 10, 20 >>
    [] OTHER -> IF o.exc # "" THEN << 10 >> ELSE << 10, 50, 100 >>

\* bookkeeping of a completed UpdateFinalStatusStep.execute: a completion for
\* the same document and chunk count as the one before counts as a repeat
\* (absent: no checkpoint of the document existed when it began); any other
\* completion starts a new record of the rows it left
note_finalized(f, ctx, c, o) ==
  LET d == ctx.document
      n == IF ctx.chunk_count = None THEN 0 ELSE ctx.chunk_count.v
  IN IF f.n > 0 /\ f.document = d /\ f.chunk_count = n
     THEN [f EXCEPT !.n = 2, !.absent = (cached_keys(c, d) = {})]
     ELSE [n |-> 1, document |-> d, chunk_count |-> n, absent |-> FALSE,
           row |-> o.documents[d], kb |-> o.kb]

\* step.execute(self.context), dispatched on the step's class
step_execute(cls, ctx, c, docs, kb) ==
  CASE cls = "InitializeStep" -> InitializeStep(ctx, c, docs, kb)
    [] cls = "OCRStep" -> OCRStep(ctx, c, docs, kb)
    [] cls = "GetFileContentStep" -> GetFileContentStep(ctx, c, docs, kb)
    [] cls = "ParseFileStep" -> ParseFileStep(ctx, c, docs, kb)
    [] cls = "ExtractBlocksStep" -> ExtractBlocksStep(ctx, c, docs, kb)
    [] cls = "ProcessChunksStep" -> ProcessChunksStep(ctx, c, docs, kb)
    [] OTHER -> UpdateFinalStatusStep(ctx, c, docs, kb)

\* ------------------------------------------------ tasks/base_workflow.py
\* [self._step_to_dict(step) for step in self.steps]: the statuses
step_to_dict(ss) == [i \in 1..Len(ss) |-> ss[i].status]

\* the two return statements of BaseWorkflow.execute (155-159, 161-168)
Success(ss) == [kind |-> "returned", success |-> TRUE, error |-> "",
                steps |-> step_to_dict(ss)]
Failure(e, ss) == [kind |-> "returned", success |-> FALSE, error |-> e,
                   steps |-> step_to_dict(ss)]

\* BaseWorkflow._should_execute_step, lines 170-174
base_should_execute_step(cfg, st) == step_enabled(cfg, st.name)

EngineSide == << EngineVars, SideVars, bodies, index, next_uuid, built_from >>

\* a caller constructs DocumentParsingWorkflow(workflow_config):
\* BaseWorkflow.__init__, lines 88-93.  The model follows one workflow
\* object: its construction and assembly precede its runs.
new_base_workflow(cfg) ==
  /\ wf_pc = "idle"
  /\ wf_result = NoResult
  /\ workflow_config' = cfg
  /\ steps' = <<>>
  /\ context' = EmptyContext
  /\ current_step_index' = 0
  /\ is_cancelled' = FALSE
  /\ wf_result' = NoResult
  /\ wf_i' = 1
  /\ wf_before' = <<>>
  /\ wf_started' = {}
  /\ built_from' = NotCustom
  /\ UNCHANGED << EngineVars, SideVars, bodies, index, next_uuid, cache, wf_pc,
                  documents, kb_chunk_num, wf_runs, wf_progress, cancelled_at,
                  wf_broke, finalized >>

\* CustomDocumentParsingWorkflow.__init__, document_parsing_workflow.py:
\* 265-282: config["steps"] gets {"enabled": True} for each name of
\* custom_steps and no entry for any other step
custom_config(names) ==
  [n \in ConfigNames |->
     IF \E i \in 1..Len(names) : names[i] = n THEN "enabled" ELSE "absent"]

\* DocumentParsingWorkflow.create_custom_workflow, lines 155-168: a named
\* step keeps the entry this workflow's config has for it, or gets
\* {"enabled": True}; no other step gets an entry
create_custom_config(cfg, names) ==
  [n \in ConfigNames |->
     IF \E i \in 1..Len(names) : names[i] = n
     THEN IF cfg[n] = "absent" THEN "enabled" ELSE cfg[n]
     ELSE "absent"]

\* a caller builds CustomDocumentParsingWorkflow(custom_steps), or calls
\* create_custom_workflow(step_names) on the workflow at hand and goes on
\* with the workflow it returns
custom_workflow(names, via) ==
  /\ wf_pc = "idle"
  /\ wf_result = NoResult
  /\ workflow_config' = IF via = "create_custom_workflow"
                        THEN create_custom_config(workflow_config, names)
                        ELSE custom_config(names)
  /\ steps' = <<>>
  /\ context' = EmptyContext
  /\ current_step_index' = 0
  /\ is_cancelled' = FALSE
  /\ wf_result' = NoResult
  /\ wf_i' = 1
  /\ wf_before' = <<>>
  /\ wf_started' = {}
  /\ built_from' = names
  /\ UNCHANGED << EngineVars, SideVars, bodies, index, next_uuid, cache, wf_pc,
                  documents, kb_chunk_num, wf_runs, wf_progress, cancelled_at,
                  wf_broke, finalized >>

\* BaseWorkflow.add_step, lines 100-102; callers assemble the workflow
\* before they first run it
add_step(cls) ==
  /\ wf_pc = "idle"
  /\ wf_result = NoResult
  /\ Len(steps) < MaxSteps
  /\ steps' = Append(steps, NewStep(cls))
  /\ built_from' = NotCustom
  /\ UNCHANGED << EngineVars, SideVars, bodies, index, next_uuid, cache,
                  workflow_config, context, current_step_index,
                  is_cancelled, wf_pc, wf_i, wf_result, documents, kb_chunk_num,
                  wf_runs, wf_before, wf_started, wf_progress, cancelled_at,
                  wf_broke, finalized >>

\* BaseWorkflow.cancel, lines 189-192 (another thread may call it at any time)
cancel ==
  /\ ~ is_cancelled
  /\ is_cancelled' = TRUE
  /\ cancelled_at' = IF wf_pc = "step" THEN wf_i ELSE cancelled_at
  /\ UNCHANGED << EngineSide, cache, workflow_config, steps, context,
                  current_step_index, wf_pc, wf_i, wf_result, documents,
                  kb_chunk_num, wf_runs, wf_before, wf_started, wf_progress,
                  wf_broke, finalized >>

\* BaseWorkflow.execute, lines 117-123: up to the loop.  get_workflow_steps
\* runs inside the try, so what it raises becomes a failure result.
base_execute(ctx) ==
  /\ wf_pc = "idle"
  /\ wf_runs < MaxBaseRuns
  /\ wf_runs' = wf_runs + 1
  /\ context' = ctx
  /\ current_step_index' = 0
  /\ wf_started' = {}
  /\ wf_progress' = <<>>
  /\ cancelled_at' = 0
  /\ wf_broke' = FALSE
  /\ LET got == IF steps = <<>> THEN get_workflow_steps(workflow_config)
                ELSE [exc |-> "", steps |-> steps]
     IN IF got.exc # ""
        THEN /\ wf_result' = Failure(got.exc, steps)
             /\ wf_before' = step_to_dict(steps)
             /\ UNCHANGED << steps, wf_pc, wf_i >>
        ELSE /\ steps' = got.steps
             /\ wf_before' = step_to_dict(got.steps)
             /\ wf_pc' = "loop"
             /\ wf_i' = 1
             /\ wf_result' = NoResult
  /\ UNCHANGED << EngineSide, cache, workflow_config, is_cancelled, documents,
                  kb_chunk_num, finalized >>

\* the for loop is exhausted: return success (155-159)
loop_end ==
  /\ wf_pc = "loop"
  /\ wf_i > Len(steps)
  /\ wf_result' = Success(steps)
  /\ wf_pc' = "idle"
  /\ UNCHANGED << EngineSide, cache, workflow_config, steps, context,
                  current_step_index, is_cancelled, wf_i, documents, kb_chunk_num,
                  wf_runs, wf_before, wf_started, wf_progress, cancelled_at,
                  wf_broke, finalized >>

\* `if self.is_cancelled: break` (127-129), then the same return
loop_break ==
  /\ wf_pc = "loop"
  /\ wf_i <= Len(steps)
  /\ is_cancelled
  /\ wf_result' = Success(steps)
  /\ wf_pc' = "idle"
  /\ wf_broke' = TRUE
  /\ UNCHANGED << EngineSide, cache, workflow_config, steps, context,
                  current_step_index, is_cancelled, wf_i, documents, kb_chunk_num,
                  wf_runs, wf_before, wf_started, wf_progress, cancelled_at,
                  finalized >>

\* step.skip(...); continue (136-138)
loop_skip ==
  /\ wf_pc = "loop"
  /\ wf_i <= Len(steps)
  /\ ~ is_cancelled
  /\ ~ base_should_execute_step(workflow_config, steps[wf_i])
  /\ current_step_index' = wf_i - 1
  /\ steps' = [steps EXCEPT ![wf_i].status = "SKIPPED"]
  /\ wf_i' = wf_i + 1
  /\ wf_progress' = << 100 >>
  /\ UNCHANGED << EngineSide, cache, workflow_config, context, is_cancelled, wf_pc,
                  wf_result, documents, kb_chunk_num, wf_runs, wf_before,
                  wf_started, cancelled_at, wf_broke, finalized >>

\* a variant of the loop head that never looks at is_cancelled
loop_start_ignoring_cancel ==
  /\ wf_pc = "loop"
  /\ wf_i <= Len(steps)
  /\ base_should_execute_step(workflow_config, steps[wf_i])
  /\ current_step_index' = wf_i - 1
  /\ steps' = [steps EXCEPT ![wf_i].status = "RUNNING"]
  /\ wf_started' = wf_started \cup {wf_i}
  /\ wf_progress' = << 0 >>
  /\ wf_pc' = "step"
  /\ UNCHANGED << EngineSide, cache, workflow_config, context, is_cancelled, wf_i,
                  wf_result, documents, kb_chunk_num, wf_runs, wf_before,
                  cancelled_at, wf_broke, finalized >>

\* step.start() (141): RUNNING, update_progress(0.0) (56-60)
loop_start ==
  /\ wf_pc = "loop"
  /\ wf_i <= Len(steps)
  /\ ~ is_cancelled
  /\ base_should_execute_step(workflow_config, steps[wf_i])
  /\ current_step_index' = wf_i - 1
  /\ steps' = [steps EXCEPT ![wf_i].status = "RUNNING"]
  /\ wf_started' = wf_started \cup {wf_i}
  /\ wf_progress' = << 0 >>
  /\ wf_pc' = "step"
  /\ UNCHANGED << EngineSide, cache, workflow_config, context, is_cancelled, wf_i,
                  wf_result, documents, kb_chunk_num, wf_runs, wf_before,
                  cancelled_at, wf_broke, finalized >>

\* result = step.execute(self.context); step.complete(result);
\* self.context.update(result) (142-146), or the except clause: step.fail,
\* raise (150-153), caught by the outer except that returns failure (161-168)
step_run ==
  /\ wf_pc = "step"
  /\ \E o \in step_execute(steps[wf_i].cls, context, cache, documents, kb_chunk_num) :
       /\ o.kb <= MaxKbChunkNum
       /\ context' = o.context
       /\ cache' = o.cache
       /\ documents' = o.documents
       /\ kb_chunk_num' = o.kb
       /\ IF o.exc = ""
          THEN /\ steps' = [steps EXCEPT ![wf_i].status = "COMPLETED"]
               /\ wf_i' = wf_i + 1
               /\ wf_pc' = "loop"
               /\ wf_progress' =
                    wf_progress \o execute_progress(steps[wf_i].cls, context, o)
                                \o << 100 >>
               /\ finalized' =
                    IF steps[wf_i].cls = "UpdateFinalStatusStep"
                    THEN note_finalized(finalized, context, cache, o)
                    ELSE finalized
               /\ UNCHANGED wf_result
          ELSE /\ steps' = [steps EXCEPT ![wf_i].status = "FAILED"]
               /\ wf_result' = Failure(o.exc, [steps EXCEPT ![wf_i].status = "FAILED"])
               /\ wf_pc' = "idle"
               /\ wf_progress' =
                    wf_progress \o execute_progress(steps[wf_i].cls, context, o)
                                \o << 0 >>
               /\ UNCHANGED << wf_i, finalized >>
  /\ UNCHANGED << EngineSide, workflow_config, current_step_index, is_cancelled,
                  wf_runs, wf_before, wf_started, cancelled_at, wf_broke >>

\* The two engines use the same Redis and the same key names: an
\* ExtractBlocksStep run by a BaseWorkflow for document d (lines 336-339)
\* leaves block_info_<d>, which a later MinerUWorkflow run for d finds.
tasks_extract_blocks(d) ==
  /\ pc = Idle
  /\ cache[d]["block_info"] = None
  /\ \E o \in ExtractBlocksStep([EmptyContext EXCEPT !.document = d,
                                                      !.middle_json_content = "full"],
                                  cache, documents, kb_chunk_num) :
       /\ o.exc = ""
       /\ cache' = o.cache
  /\ UNCHANGED << EngineVars, BaseVars, SideVars, bodies, index, next_uuid >>

Next ==
  \/ \E d \in Docs, r \in ResumeInputs, cb \in {"none", "supplied"} : Execute(d, r, cb)
  \/ NewWorkflow
  \/ StartStep
  \/ BypassStep
  \/ execute_init_step
  \/ execute_get_file_content_step
  \/ execute_parse_file_step
  \/ execute_extract_blocks_step
  \/ execute_process_chunks_step
  \/ process_chunks_loop
  \/ process_chunks_done
  \/ execute_update_final_status_step
  \/ \E d \in Docs : tasks_extract_blocks(d)

Spec == Init /\ [][Next]_vars

NextBase ==
  \/ \E cfg \in Configs : new_base_workflow(cfg)
  \/ \E names \in CustomStepLists,
        via \in {"CustomDocumentParsingWorkflow", "create_custom_workflow"} :
       custom_workflow(names, via)
  \/ \E cls \in StepClasses : add_step(cls)
  \/ cancel
  \/ \E ctx \in InitialContexts : base_execute(ctx)
  \/ loop_end
  \/ loop_break
  \/ loop_skip
  \/ loop_start
  \/ step_run

SpecBase == Init /\ [][NextBase]_vars

\* ------------------------------ two runs side by side (file_parser/workflow.py)
\* Each document is parsed by its own MinerUWorkflow instance; the instances
\* share Redis and the temporary directory.  A run is cut at the points where
\* it touches either: storage read and file_content checkpoint, writing the
\* temporary file, reading it back, EXTRACT_BLOCKS, and the finally clause.
ParallelTypes == {"pdf", "excel"}

\* the path _parse_pdf (565) or _parse_excel (642) writes file_content to
temp_path(d, type) ==
  IF type = "excel" THEN "temp_excel.xlsx"
  ELSE IF d = "d1" THEN "d1.pdf" ELSE "d2.pdf"

\* execute(doc_id, doc_info, ...) on a new instance, through INIT
par_execute(d, type) ==
  /\ workflows[d].at = "idle"
  /\ workflows' = [workflows EXCEPT ![d].at = "GET_FILE_CONTENT", ![d].type = type]
  /\ UNCHANGED << EngineVars, BaseVars, ServiceVars, ProcVars, tmp, cache, bodies, index, next_uuid >>

\* an exception leaves the step function: the run goes to the finally clause
par_raise(w, e, ext) == [w EXCEPT !.at = "finally", !.error = e, !.ext = ext]

\* MinerUWorkflow._update_document_progress, lines 915-944: the body is
\* commented out down to `pass`; the Document row stays as it is
update_document_progress(docs, d, status) == docs

\* the except clause of execute (139-142), taken when the step raised:
\* self._update_document_progress(doc_id, status="FAILED", message=str(e))
par_except(docs, d, w) ==
  IF w.at = "finally" THEN update_document_progress(docs, d, "FAILED") ELSE docs

\* parse_document_task.delay(*args): the message goes to the broker and the
\* AsyncResult carries a fresh id
delay(q, id, args) == q \cup {[id |-> id, args |-> args]}

\* a variant of the guard that lets a PROCESSING document through
parse_task_refused_unless_processing(row) ==
  row.status \in {"END", "STOP"}

\* the status guard of create_parse_document_task, rag_manager.py:87-91
parse_task_refused(row) ==
  row.status \in {"PROCESSING", "END", "STOP"}

\* RAGManager.create_parse_document_task, rag_manager.py:83-143, as a function
\* of the rows it reads: refuses a document that is PROCESSING, END or STOP
\* (ValueError, re-raised as DRFValidationError); else marks it PROCESSING with
\* progress '0' (94-99), submits parse_document_task(document_id,
\* workflow_config) (114) and creates the PENDING Task row (117-126)
parse_task_created(docs, q, rows, id, d) ==
  IF parse_task_refused(docs[d])
  THEN [raised |-> TRUE, documents |-> docs, celery_queue |-> q, tasks |-> rows,
        next_task_id |-> id]
  ELSE [raised |-> FALSE,
        documents |-> [docs EXCEPT ![d].status = "PROCESSING",
                                   ![d].progress = "0",
                                   ![d].progress_msg = MsgStartParse],
        celery_queue |-> delay(q, id, << d, "None" >>),
        tasks |-> [rows EXCEPT ![id] = [status |-> "PENDING",
                                        task_related_id |-> d,
                                        instance_id |-> 0]],
        next_task_id |-> id + 1]

create_parse_document_task(d) ==
  /\ next_task_id <= MaxTasks
  /\ ~ parse_task_refused(documents[d])
  /\ LET o == parse_task_created(documents, celery_queue, tasks, next_task_id, d)
     IN /\ documents' = o.documents
        /\ celery_queue' = o.celery_queue
        /\ tasks' = o.tasks
        /\ next_task_id' = o.next_task_id
  /\ UNCHANGED << EngineVars, BaseInstanceVars, ParVars, ProcVars, cache, bodies, index,
                  next_uuid, parse_reply, task_runs, action_reply, callers >>

\* _execute_get_file_content_step, lines 298-322
par_get_file_content(d) ==
  /\ workflows[d].at = "GET_FILE_CONTENT"
  /\ \E got \in {"bytes", "raises"} :
       IF got = "bytes"
       THEN /\ cache' = get_file_content_caching(cache, d)
            /\ workflows' = [workflows EXCEPT ![d].file_content = Bytes(d),
                                               ![d].at = "PARSE_FILE"]
       ELSE /\ workflows' = [workflows EXCEPT ![d] = par_raise(@, "Exception", TRUE)]
            /\ UNCHANGED cache
  /\ documents' = par_except(documents, d, workflows'[d])
  /\ UNCHANGED << EngineVars, BaseInstanceVars, ServiceVars, ProcVars, tmp, bodies, index, next_uuid >>

\* _parse_pdf 564-569 / _parse_excel 641-646: self.temp_files.append(path);
\* open(path, "wb"); f.write(file_content)
par_write_temp(d) ==
  /\ workflows[d].at = "PARSE_FILE"
  /\ LET path == temp_path(d, workflows[d].type)
     IN /\ tmp' = [tmp EXCEPT ![path] = workflows[d].file_content.v]
        /\ workflows' = [workflows EXCEPT ![d].temp_files = @ \cup {path},
                                           ![d].at = "PARSE_READ"]
  /\ UNCHANGED << EngineVars, BaseVars, ServiceVars, ProcVars, cache, bodies, index, next_uuid >>

\* reader.read_pdf(temp_pdf_path) (573) / excel_parser.parse_excel(
\* temp_excel_path) (649): the extractor works on what the path holds now;
\* then lines 348-351 of _execute_parse_file_step
par_read_temp(d) ==
  /\ workflows[d].at = "PARSE_READ"
  /\ LET path == temp_path(d, workflows[d].type)
         value == [t |-> "tuple",
                   v |-> [content_list |-> FileBlocks(tmp[path]),
                          middle_json |-> IF workflows[d].type = "excel"
                                          THEN "empty" ELSE "full"]]
     IN IF tmp[path] = NoDoc
        THEN /\ workflows' =
                  [workflows EXCEPT ![d] = par_raise(@, "FileNotFoundError", FALSE)]
             /\ UNCHANGED cache
        ELSE /\ cache' = parse_file_caching(cache, d, value)
             /\ workflows' = [workflows EXCEPT ![d].parse_result = value,
                                                ![d].at = "EXTRACT_BLOCKS"]
  /\ documents' = par_except(documents, d, workflows'[d])
  /\ UNCHANGED << EngineVars, BaseInstanceVars, ServiceVars, ProcVars, tmp, bodies, index, next_uuid >>

\* self._extract_block_info(middle_json_content) at line 363
par_extract_blocks(d) ==
  /\ workflows[d].at = "EXTRACT_BLOCKS"
  /\ workflows' =
       [workflows EXCEPT ![d] =
          par_raise(@, IF extract_block_info(1) = "" THEN "TypeError"
                       ELSE extract_block_info(1), FALSE)]
  /\ documents' = par_except(documents, d, workflows'[d])
  /\ UNCHANGED << EngineVars, BaseInstanceVars, ServiceVars, ProcVars, tmp, cache, bodies, index, next_uuid >>

\* finally: _cleanup_temp_files (946-957) removes every path of
\* self.temp_files that exists; the exception then reaches the caller
par_cleanup_temp_files(d) ==
  /\ workflows[d].at = "finally"
  /\ tmp' = [p \in TempPaths |->
              IF p \in workflows[d].temp_files THEN NoDoc ELSE tmp[p]]
  /\ workflows' = [workflows EXCEPT ![d].temp_files = {},
                                     ![d].result = Raised(workflows[d].error),
                                     ![d].at = "done"]
  /\ UNCHANGED << EngineVars, BaseVars, ServiceVars, ProcVars, cache, bodies, index, next_uuid >>

NextPar ==
  \/ \E d \in Docs : create_parse_document_task(d)
  \/ \E d \in Docs, type \in ParallelTypes : par_execute(d, type)
  \/ \E d \in Docs : par_get_file_content(d)
  \/ \E d \in Docs : par_write_temp(d)
  \/ \E d \in Docs : par_read_temp(d)
  \/ \E d \in Docs : par_extract_blocks(d)
  \/ \E d \in Docs : par_cleanup_temp_files(d)

SpecPar == Init /\ [][NextPar]_vars

\* --------------------------- the service layer (rag_manager.py, viewmodels.py,
\* celery_rag_tasks.py): requests reach RAGManager, which submits
\* parse_document_task to Celery; a Celery worker runs the submitted tasks.

\* the signature of parse_document_task behind the bound self,
\* celery_rag_tasks.py:16: (document_id, workflow_config = None)
accepts(args) == Len(args) \in 1..2

\* parse_document_task run by a worker with the message's arguments
\* (celery_rag_tasks.py:15-101).  Arguments the signature does not take make
\* the call raise TypeError before the body.  The body reports six simulated
\* steps with update_state and time.sleep(1) (45-74) and returns status
\* SUCCESS (77-83); it builds no workflow and calls no execute: the set of
\* workflow executions it makes is empty.
parse_document_task(args) ==
  IF accepts(args)
  THEN [status |-> "SUCCESS", executed |-> {}]
  ELSE [status |-> "TypeError", executed |-> {}]

\* RAGManager.start_document_parse, rag_manager.py:145-198.  The permission
\* check (159-163) and the except clauses (190-198) return success False.
\* Line 178 calls delay(document_id, workflow_config, resume_from): with
\* Celery's argument checking on (Task.typing, the library's default) the call
\* raises TypeError and the except clause answers; with it off the message
\* is sent with three arguments and success is returned.
start_document_parse(d, access, S) ==
  /\ \E typing \in BOOLEAN :
       LET args == << d, "simple", S >>
       IN IF access /\ ~ (typing /\ ~ accepts(args))
          THEN /\ next_task_id <= MaxTasks
               /\ celery_queue' = delay(celery_queue, next_task_id, args)
               /\ next_task_id' = next_task_id + 1
               /\ parse_reply' = [kind |-> "returned", success |-> TRUE,
                                  document_id |-> d, resume_from |-> S,
                                  task_id |-> next_task_id,
                                  status |-> "PROCESSING"]
          ELSE /\ parse_reply' = [kind |-> "returned", success |-> FALSE,
                                  document_id |-> d, resume_from |-> S,
                                  task_id |-> 0, status |-> "-"]
               /\ UNCHANGED << celery_queue, next_task_id >>
  /\ UNCHANGED << EngineVars, BaseVars, ParVars, ProcVars, cache, bodies, index, next_uuid,
                  tasks, task_runs, action_reply, callers >>

\* a Celery worker takes a message off the broker and runs the task
run_parse_document_task ==
  /\ \E m \in celery_queue :
       LET o == parse_document_task(m.args)
       IN /\ celery_queue' = celery_queue \ {m}
          /\ task_runs' = task_runs \cup
                            {[id |-> m.id, args |-> m.args, status |-> o.status,
                              executed |-> o.executed]}
  /\ UNCHANGED << EngineVars, BaseVars, ParVars, ProcVars, cache, bodies, index, next_uuid,
                  tasks, next_task_id, parse_reply, action_reply, callers >>

\* RAGManager.stop_parse_document_task, rag_manager.py:361-397, on the row
stop_parse_document_task(row) ==
  [row EXCEPT !.status = "stopped", !.progress_msg = MsgStopped]

\* DocumentViewModel.perform_document_action, viewmodels.py:263-309.
\* `document` is loaded at 274, before the branch; create_parse_document_task
\* and stop_parse_document_task load and save their own instance of the row;
\* document.save() at 304 then writes every field of the instance loaded at
\* 274, and that instance is what is returned.  A raise inside
\* transaction.atomic() (281) rolls the rows back.
perform_document_action(d, action, access) ==
  LET document == documents[d]
      fail == /\ action_reply' = [kind |-> "raised", action |-> action,
                                   document_id |-> d]
              /\ UNCHANGED << documents, celery_queue, tasks, next_task_id >>
      save(docs, row) ==
        /\ documents' = [docs EXCEPT ![d] = row]
        /\ action_reply' = [kind |-> "returned", action |-> action,
                            document_id |-> d, document |-> row,
                            persisted |-> row, before |-> document]
  IN /\ IF action \notin RAGAction \/ ~ access
        THEN fail
        ELSE IF action = "start_parse"
        THEN LET o == parse_task_created(documents, celery_queue, tasks,
                                         next_task_id, d)
             IN IF o.raised
                THEN fail
                ELSE /\ next_task_id <= MaxTasks
                     /\ celery_queue' = o.celery_queue
                     /\ tasks' = o.tasks
                     /\ next_task_id' = o.next_task_id
                     /\ save(o.documents, document)
        ELSE IF action = "stop_parse"
        THEN /\ save([documents EXCEPT ![d] = stop_parse_document_task(@)],
                     document)
             /\ UNCHANGED << celery_queue, tasks, next_task_id >>
        ELSE IF action = "delete"
        THEN IF document.status = "PROCESSING"
             THEN fail
             ELSE /\ save(documents, document)
                  /\ UNCHANGED << celery_queue, tasks, next_task_id >>
        ELSE /\ save(documents, [document EXCEPT !.status = "PROCESSING",
                                                 !.progress = "0",
                                                 !.progress_msg = MsgRefreshed])
             /\ UNCHANGED << celery_queue, tasks, next_task_id >>
     /\ UNCHANGED << EngineVars, BaseInstanceVars, ParVars, ProcVars, cache, bodies, index,
                     next_uuid, parse_reply, task_runs, callers >>

NextService ==
  \/ \E d \in Docs, access \in BOOLEAN, S \in ServiceResumes :
       start_document_parse(d, access, S)
  \/ run_parse_document_task
  \/ \E d \in Docs, action \in ActionInputs, access \in BOOLEAN :
       perform_document_action(d, action, access)
  \/ \E d \in Docs : create_parse_document_task(d)

SpecService == Init /\ [][NextService]_vars

\* ------------------- create_parse_document_task called by concurrent requests
\* Each request runs rag_manager.py:83-143 in its own thread or process; a
\* request is cut at its accesses to the Document table, the broker and the
\* Task table.  Neither select_for_update nor a lock is taken: the
\* transaction.atomic() of lines 94-99 spans the save only.

\* what a request's step leaves alone
CallFrame ==
  << EngineVars, BaseInstanceVars, ParVars, ProcVars, cache, bodies, index, next_uuid,
     parse_reply, action_reply >>

\* requests between the guard and the submission
in_flight == {c \in Callers : callers[c].at \in {"loaded", "saved"}}

\* lines 85-91: Document.objects.get, then the status guard; a refused call
\* raises ValueError, which line 141 turns into DRFValidationError
create_load(c, d) ==
  /\ callers[c].at \in {"idle", "returned", "raised"}
  /\ next_task_id + Cardinality(in_flight) <= MaxTasks
  /\ LET document == documents[d]
     IN callers' = [callers EXCEPT ![c] =
          IF parse_task_refused(document)
          THEN [at |-> "raised", doc |-> d, document |-> NoRow, task_id |-> 0]
          ELSE [at |-> "loaded", doc |-> d, document |-> document, task_id |-> 0]]
  /\ UNCHANGED << CallFrame, documents, celery_queue, tasks, next_task_id, task_runs >>

\* lines 94-99: the instance loaded at 85 is given status PROCESSING and saved
create_save(c) ==
  /\ callers[c].at = "loaded"
  /\ LET document == [callers[c].document EXCEPT !.status = "PROCESSING",
                                                 !.progress = "0",
                                                 !.progress_msg = MsgStartParse]
     IN /\ documents' = [documents EXCEPT ![callers[c].doc] = document]
        /\ callers' = [callers EXCEPT ![c].at = "saved", ![c].document = document]
  /\ UNCHANGED << CallFrame, celery_queue, tasks, next_task_id, task_runs >>

\* line 114: parse_document_task.delay(document_id, workflow_config)
create_delay(c) ==
  /\ callers[c].at = "saved"
  /\ celery_queue' = delay(celery_queue, next_task_id, << callers[c].doc, "None" >>)
  /\ next_task_id' = next_task_id + 1
  /\ callers' = [callers EXCEPT ![c].at = "sent", ![c].task_id = next_task_id,
                                 ![c].document = NoRow]
  /\ UNCHANGED << CallFrame, documents, tasks, task_runs >>

\* lines 117-135: Task.objects.create(task_id = result.id, ...), return
create_task_record(c) ==
  /\ callers[c].at = "sent"
  /\ tasks' = [tasks EXCEPT ![callers[c].task_id] =
                 [status |-> "PENDING", task_related_id |-> callers[c].doc,
                  instance_id |-> 0]]
  /\ callers' = [callers EXCEPT ![c].at = "returned"]
  /\ UNCHANGED << CallFrame, documents, celery_queue, next_task_id, task_runs >>

NextCreate ==
  \/ \E c \in Callers, d \in Docs : create_load(c, d)
  \/ \E c \in Callers : create_save(c)
  \/ \E c \in Callers : create_delay(c)
  \/ \E c \in Callers : create_task_record(c)
  \/ run_parse_document_task

SpecCreate == Init /\ [][NextCreate]_vars

\* a request that has passed the guard runs to its return, and the Celery
\* worker runs every message that stays on the broker; whether a request
\* is ever made is left open
SpecCreateFair ==
  /\ SpecCreate
  /\ \A c \in Callers :
       WF_vars(create_save(c) \/ create_delay(c) \/ create_task_record(c))
  /\ WF_vars(run_parse_document_task)

\* -------------------------------- TaskProcessor (multi_thread_celery_main.py)
\* The producer thread, the consumer threads, the monitor thread and the main
\* thread's _recover_running_tasks run concurrently on self.task_queue,
\* self.processing_tasks and the Task table.  A thread is cut at each access
\* to one of them.  self.lock is held by _recover_running_tasks for its whole
\* loop, by a monitor round, and by the consumer's discard; the producer holds
\* it only while it builds its (lazy) query.

\* the documents whose parse task is created while the processor runs
ProcDocs == {"d1"}

\* what the processor's actions leave alone outside the processor
ProcFrame ==
  << EngineVars, BaseVars, ParVars, cache, bodies, index, next_uuid, next_task_id,
     parse_reply, action_reply, callers >>

\* the rows of a query, in the order they are iterated
Ordered(S) ==
  [i \in 1..Cardinality(S) |->
     CHOOSE t \in S : Cardinality({u \in S : u < t}) = i - 1]

\* Task.objects.filter(status = st), evaluated when its iteration begins
filter_status(rows, st) == Ordered({t \in TaskIds : rows[t].status = st})

\* the for loop moves to its next row, or ends
next_row(th, ended) ==
  IF th.i < Len(th.rows) THEN [th EXCEPT !.i = @ + 1, !.at = "check"] ELSE ended

\* `with self.lock:` of _recover_running_tasks (122-141): taken when the
\* main thread evaluates its query, held until the loop has ended
lock_held == recover.at \in {"check", "put", "add"}

\* the id of the AsyncResult a submission by the processor gets
instance_id_of(q, done) == 100 + Cardinality(q) + Cardinality(done) + 1

\* TaskProcessor.start, lines 66-101: the threads are started, then the main
\* thread enters _recover_running_tasks
start ==
  /\ ~ running
  /\ running' = TRUE
  /\ recover' = [at |-> "query", rows |-> <<>>, i |-> 1]
  /\ to_recover' = {t \in TaskIds : tasks[t].status = "RUNNING"}
  /\ UNCHANGED << ProcFrame, celery_queue, tasks, task_runs, task_queue,
                  processing_tasks, producer, consumers, restarts, requeued >>

\* the process dies and a new TaskProcessor is constructed (lines 54-64): the
\* queue, the set and the threads are gone, the Task table and Celery stay
restart ==
  /\ running
  /\ restarts < MaxRestarts
  /\ restarts' = restarts + 1
  /\ running' = FALSE
  /\ task_queue' = <<>>
  /\ processing_tasks' = {}
  /\ producer' = Waiting
  /\ recover' = Off
  /\ consumers' = [c \in Consumers |-> Free]
  /\ to_recover' = {}
  /\ requeued' = {}
  /\ UNCHANGED << ProcFrame, celery_queue, tasks, task_runs >>

\* _recover_running_tasks, lines 120-145; queue.Full ends the loop (136-138)
recover_running_tasks ==
  /\ running
  /\ LET t == recover.rows[recover.i]
         ended == [recover EXCEPT !.at = "done"]
     IN \/ /\ recover.at = "query"
           /\ LET rows == filter_status(tasks, "RUNNING")
              IN recover' = IF rows = <<>> THEN ended
                            ELSE [at |-> "check", rows |-> rows, i |-> 1]
           /\ UNCHANGED << task_queue, processing_tasks, requeued >>
        \/ /\ recover.at = "check"
           /\ recover' = IF t \notin processing_tasks
                         THEN [recover EXCEPT !.at = "put"]
                         ELSE next_row(recover, ended)
           /\ UNCHANGED << task_queue, processing_tasks, requeued >>
        \/ /\ recover.at = "put"
           /\ IF Len(task_queue) < MaxQueue
              THEN /\ task_queue' = Append(task_queue, t)
                   /\ requeued' = requeued \cup {t}
                   /\ recover' = [recover EXCEPT !.at = "add"]
              ELSE /\ recover' = [recover EXCEPT !.at = "full"]
                   /\ UNCHANGED << task_queue, requeued >>
           /\ UNCHANGED processing_tasks
        \/ /\ recover.at = "add"
           /\ processing_tasks' = processing_tasks \cup {t}
           /\ recover' = next_row(recover, ended)
           /\ UNCHANGED << task_queue, requeued >>
  /\ UNCHANGED << ProcFrame, celery_queue, tasks, task_runs, running, producer,
                  consumers, restarts, to_recover >>

\* _producer_worker, lines 147-183: one step of the polling loop
producer_worker ==
  /\ running
  /\ LET t == producer.rows[producer.i]
     IN \/ /\ producer.at = "wait"
           /\ LET rows == filter_status(tasks, "PENDING")
              IN producer' = IF rows = <<>> THEN Waiting
                             ELSE [at |-> "check", rows |-> rows, i |-> 1]
           /\ UNCHANGED << task_queue, processing_tasks >>
        \/ /\ producer.at = "check"
           /\ producer' = IF t \notin processing_tasks
                          THEN [producer EXCEPT !.at = "put"]
                          ELSE next_row(producer, Waiting)
           /\ UNCHANGED << task_queue, processing_tasks >>
        \/ /\ producer.at = "put"
           /\ IF Len(task_queue) < MaxQueue
              THEN /\ task_queue' = Append(task_queue, t)
                   /\ producer' = [producer EXCEPT !.at = "add"]
              ELSE /\ producer' = Waiting
                   /\ UNCHANGED task_queue
           /\ UNCHANGED processing_tasks
        \/ /\ producer.at = "add"
           /\ processing_tasks' = processing_tasks \cup {t}
           /\ producer' = next_row(producer, Waiting)
           /\ UNCHANGED task_queue
  /\ UNCHANGED << ProcFrame, celery_queue, tasks, task_runs, running, recover,
                  consumers, restarts, to_recover, requeued >>

\* _consumer_worker, lines 185-209: self.task_queue.get(timeout=5)
consumer_worker(c) ==
  /\ running
  /\ consumers[c].at = "get"
  /\ task_queue # <<>>
  /\ consumers' = [consumers EXCEPT ![c] = [at |-> "begin", task_id |-> Head(task_queue),
                                            row |-> NoTask]]
  /\ task_queue' = Tail(task_queue)
  /\ UNCHANGED << ProcFrame, celery_queue, tasks, task_runs, processing_tasks,
                  running, producer, recover, restarts, to_recover, requeued >>

\* _process_task, lines 228-274, with _execute_task (332-348) and
\* _execute_rag_parsing_task (350-382): the row is loaded and saved RUNNING
\* (232-239); parse_document_task.delay is called and its id saved as
\* instance_id (370-375); the row is saved COMPLETED (245-256); the finally
\* clause discards the id under the lock (271-274).  Each task.save() writes
\* the thread's instance of the row.
process_task(c) ==
  /\ running
  /\ LET me == consumers[c]
         t == me.task_id
     IN \/ /\ me.at = "begin"
           /\ LET row == [tasks[t] EXCEPT !.status = "RUNNING"]
              IN /\ tasks' = [tasks EXCEPT ![t] = row]
                 /\ consumers' = [consumers EXCEPT ![c].at = "execute", ![c].row = row]
           /\ UNCHANGED << celery_queue, processing_tasks >>
        \/ /\ me.at = "execute"
           /\ LET id == instance_id_of(celery_queue, task_runs)
                  row == [me.row EXCEPT !.instance_id = id]
              IN /\ celery_queue' =
                      delay(celery_queue, id, << me.row.task_related_id, "cfg" >>)
                 /\ tasks' = [tasks EXCEPT ![t] = row]
                 /\ consumers' = [consumers EXCEPT ![c].at = "finish", ![c].row = row]
           /\ UNCHANGED processing_tasks
        \/ /\ me.at = "finish"
           /\ LET row == [me.row EXCEPT !.status = "COMPLETED"]
              IN /\ tasks' = [tasks EXCEPT ![t] = row]
                 /\ consumers' = [consumers EXCEPT ![c].at = "discard", ![c].row = row]
           /\ UNCHANGED << celery_queue, processing_tasks >>
        \/ /\ me.at = "discard"
           /\ ~ lock_held
           /\ processing_tasks' = processing_tasks \ {t}
           /\ consumers' = [consumers EXCEPT ![c] = Free]
           /\ UNCHANGED << celery_queue, tasks >>
  /\ UNCHANGED << ProcFrame, task_runs, task_queue, running, producer, recover,
                  restarts, to_recover, requeued >>

\* _monitor_celery_task, lines 276-316, on one row: a ready AsyncResult makes
\* the row COMPLETED or FAILED
monitor_celery_task(row, done) ==
  IF row.instance_id = 0 \/ ~ \E r \in done : r.id = row.instance_id
  THEN row
  ELSE IF \E r \in done : r.id = row.instance_id /\ r.status = "SUCCESS"
  THEN [row EXCEPT !.status = "COMPLETED"]
  ELSE [row EXCEPT !.status = "FAILED"]

\* one round of _monitor_worker (211-226): _monitor_all_celery_tasks
\* (318-330) under the lock, over the RUNNING rows that have an instance_id
monitor_worker ==
  /\ running
  /\ ~ lock_held
  /\ tasks' = [t \in TaskIds |->
                IF tasks[t].status = "RUNNING"
                THEN monitor_celery_task(tasks[t], task_runs) ELSE tasks[t]]
  /\ UNCHANGED << ProcFrame, celery_queue, task_runs, ProcVars >>

NextProc ==
  \/ start
  \/ restart
  \/ recover_running_tasks
  \/ producer_worker
  \/ \E c \in Consumers : consumer_worker(c)
  \/ \E c \in Consumers : process_task(c)
  \/ monitor_worker
  \/ \E d \in ProcDocs : create_parse_document_task(d)
  \/ run_parse_document_task

SpecProc == Init /\ [][NextProc]_vars

\* ================================================================ claims
\* the steps strictly before the resume point r
StepsBefore(r) == { s \in StepNames : StepIndex(s) < resume_index(r) }

\* C1: when execute is called with a valid resume_from = Sk, every step
\* strictly before Sk is COMPLETED during and after the run and its step
\* function is never entered in that run.
C1_ResumeSkipsEarlierSteps ==
  (runs > 0 /\ resume_from \in StepNames) =>
    /\ doc_id # NoDoc =>
         \A s \in StepsBefore(resume_from) :
           step_status[doc_id][s] = "COMPLETED" /\ calls[s] = 0
    /\ pc = Idle =>
         \A s \in StepsBefore(resume_from) :
           last.status[s] = "COMPLETED" /\ s \notin last.executed

\* a run resumed at PROCESS_CHUNKS has ended after executing PROCESS_CHUNKS
C1_Witness ==
  /\ pc = Idle
  /\ resume_from = "PROCESS_CHUNKS"
  /\ "PROCESS_CHUNKS" \in last.executed
  /\ last.status["PARSE_FILE"] = "COMPLETED"

\* C2: on a newly constructed MinerUWorkflow, execute with resume_from =
\* PROCESS_CHUNKS, the parse_result and block_info checkpoints present and no
\* collaborator failing, returns success with PROCESS_CHUNKS and
\* UPDATE_FINAL_STATUS COMPLETED and without running the four earlier steps.
C2_ResumeOnNewInstance ==
  ( /\ pc = Idle
    /\ doc_id # NoDoc
    /\ at_start.new
    /\ resume_from = "PROCESS_CHUNKS"
    /\ {"parse_result", "block_info"} \subseteq at_start.keys
    /\ ~ ext_failed )
  => /\ result.kind = "returned"
     /\ result.success
     /\ step_status[doc_id]["PROCESS_CHUNKS"] = "COMPLETED"
     /\ step_status[doc_id]["UPDATE_FINAL_STATUS"] = "COMPLETED"
     /\ \A s \in StepsBefore("PROCESS_CHUNKS") : calls[s] = 0

\* C3: after a run in which GET_FILE_CONTENT completed and PARSE_FILE failed,
\* a run resumed at PARSE_FILE executes PARSE_FILE on the file bytes of the
\* file_content checkpoint and reads object storage zero times.
C3_ResumeParseUsesCheckpoint ==
  ( /\ pc = Idle
    /\ doc_id # NoDoc
    /\ resume_from = "PARSE_FILE"
    /\ prev.doc = last.doc
    /\ "GET_FILE_CONTENT" \in prev.executed
    /\ prev.status["GET_FILE_CONTENT"] = "COMPLETED"
    /\ prev.status["PARSE_FILE"] = "FAILED" )
  => /\ "PARSE_FILE" \in last.executed
     /\ parse_input = Bytes(last.doc)
     /\ storage_reads = 0

\* C4: a fresh run (no resume_from) in which no external collaborator fails
\* returns success with completed_steps listing the six steps in catalogue
\* order.
C4_FreshRunCompletesAllSteps ==
  ( /\ pc = Idle
    /\ doc_id # NoDoc
    /\ resume_from = NoResume
    /\ ~ ext_failed )
  => /\ result.kind = "returned"
     /\ result.success
     /\ result.completed_steps = Steps

\* C5: whatever happens in a run (a step raises, resume_from is invalid),
\* execute hands its caller a result object with a success field; no
\* exception leaves execute.
C5_ExecuteReturnsResult ==
  (pc = Idle /\ doc_id # NoDoc) => result.kind = "returned"

\* C6: if a step raises during a run, that step becomes FAILED, no later step
\* of the sequence is started in that run (each keeps status PENDING), and
\* the run's outcome is failure.
C6_FailureAbortsSequence ==
  \A i \in 1..Len(steps) :
    (wf_pc = "idle" /\ i \in wf_started /\ steps[i].status = "FAILED") =>
      /\ wf_result.kind = "returned"
      /\ ~ wf_result.success
      /\ \A j \in (i + 1)..Len(steps) :
           j \notin wf_started /\ steps[j].status = "PENDING"

\* a list of non-blank text blocks of which exactly one has an embedding
\* request that raises, the others being answered with a proper vector
OneEmbeddingRaises(cl) ==
  /\ cl # <<>>
  /\ \A i \in 1..Len(cl) :
       /\ cl[i].type = "text"
       /\ extract_text_content(cl[i]) # None
       /\ cl[i].emb \in {"ok", "raises"}
  /\ Cardinality({ i \in 1..Len(cl) : cl[i].emb = "raises" }) = 1

\* C7: PROCESS_CHUNKS over n non-blank text blocks of which exactly one has
\* an embedding request that raises ends COMPLETED with chunk_count = n-1.
C7_ChunkFailureIsolated ==
  \A i \in 1..Len(steps) :
    ( /\ steps[i].cls = "ProcessChunksStep"
      /\ i \in wf_started
      /\ steps[i].status \in {"COMPLETED", "FAILED"}
      /\ context.content_list # None
      /\ OneEmbeddingRaises(context.content_list.v) )
    => /\ steps[i].status = "COMPLETED"
       /\ context.chunk_count = [t |-> "int", v |-> Len(context.content_list.v) - 1]

\* C8: in a run, the file_content checkpoint of the document exists from the
\* moment GET_FILE_CONTENT is COMPLETED until PARSE_FILE has consumed it, and
\* no longer exists once PARSE_FILE has completed.
C8_FileContentCheckpointLifetime ==
  doc_id # NoDoc =>
    /\ ( /\ calls["GET_FILE_CONTENT"] > 0
         /\ step_status[doc_id]["GET_FILE_CONTENT"] = "COMPLETED"
         /\ step_status[doc_id]["PARSE_FILE"] \in {"PENDING", "RUNNING"} )
       => cache[doc_id]["file_content"] # None
    /\ ( /\ calls["PARSE_FILE"] > 0
         /\ step_status[doc_id]["PARSE_FILE"] = "COMPLETED" )
       => cache[doc_id]["file_content"] = None

\* the local of execute that holds the output of a producing step
StepOutput(s) ==
  CASE s = "GET_FILE_CONTENT" -> file_content
    [] s = "PARSE_FILE" -> parse_result
    [] OTHER -> block_info_list

\* C9: when a resumed run bypasses a producing step whose checkpoint is
\* absent, the engine re-runs the producing step: it neither goes on with an
\* absent value nor fails the run outside every step.
C9_AbsentCheckpointRerunsStep ==
  (doc_id # NoDoc /\ resume_from \in StepNames) =>
    /\ \A s \in {"GET_FILE_CONTENT", "PARSE_FILE", "EXTRACT_BLOCKS"} :
         ( /\ pc # Idle
           /\ s \in StepsBefore(resume_from)
           /\ StepIndex(pc.step) > StepIndex(s) )
         => (StepOutput(s) # None \/ calls[s] > 0)
    /\ (pc = Idle /\ result.kind = "raised")
         => \E s \in StepNames : step_status[doc_id][s] = "FAILED"

C11_FinalizeTwiceSameStatistics ==
  (finalized.n >= 2 /\ finalized.absent) =>
    /\ documents[finalized.document] = finalized.row
    /\ kb_chunk_num = finalized.kb

\* C12: within one execution of a step the progress values reported are
\* non-decreasing, also when the step fails.
C12_ProgressNonDecreasing ==
  \A i \in 1..Len(wf_progress) : \A j \in i..Len(wf_progress) :
    wf_progress[i] <= wf_progress[j]

\* the status changes the lifecycle allows
AllowedTransitions ==
  { << "PENDING", "RUNNING" >>, << "RUNNING", "COMPLETED" >>,
    << "RUNNING", "FAILED" >>, << "PENDING", "SKIPPED" >> }

\* C13: over any sequence of operations, repeated execute calls on the same
\* workflow instance included, a step's status changes only along PENDING to
\* RUNNING to COMPLETED or FAILED; SKIPPED is entered only from PENDING and
\* never left.
C13_StatusTransitions ==
  [][ \A i \in 1..Len(steps) :
        (i <= Len(steps') /\ steps'[i].status # steps[i].status) =>
          << steps[i].status, steps'[i].status >> \in AllowedTransitions ]_vars

\* C14: if cancel() is called while step i is running, step i still runs to
\* completion or failure, no step after i is started in that run, and no step
\* after i is marked COMPLETED in that run.
C14_CancelStopsAfterRunningStep ==
  cancelled_at > 0 =>
    /\ wf_pc = "step" => (wf_i = cancelled_at /\ steps[wf_i].status = "RUNNING")
    /\ wf_pc # "step" => steps[cancelled_at].status \in {"COMPLETED", "FAILED"}
    /\ \A j \in (cancelled_at + 1)..Len(steps) :
         /\ j \notin wf_started
         /\ steps[j].status = "COMPLETED" => wf_before[j] = "COMPLETED"

\* cancel() came while the first of two steps was running; the first step has
\* completed, the run has ended and the second step is still PENDING
C14_Witness ==
  /\ wf_pc = "idle"
  /\ cancelled_at = 1
  /\ Len(steps) = 2
  /\ steps[1].status = "COMPLETED"
  /\ steps[2].status = "PENDING"
  /\ wf_started = {1}
  /\ wf_result.kind = "returned"

\* C15: when a run stops because the cancellation flag was observed, the
\* result execute returns reports a cancelled terminal state (it does not
\* report success, or it shows a CANCELLED step), so that it differs from the
\* result of a successful complete run.
C15_CancelledRunReported ==
  (wf_pc = "idle" /\ wf_broke) =>
    /\ wf_result.kind = "returned"
    /\ \/ ~ wf_result.success
       \/ \E i \in 1..Len(wf_result.steps) : wf_result.steps[i] = "CANCELLED"

\* the temporary paths whose name carries the document id d
OwnPaths(d) == IF d = "d1" THEN {"d1.pdf"} ELSE {"d2.pdf"}

\* C16: two runs of different documents side by side: under every
\* interleaving each run uses only temporary files keyed by its own document
\* id, and what it parses and returns is what it does when run alone (with no
\* collaborator failing: PARSE_FILE yields the document's own content list and
\* the run ends where it ends alone, in EXTRACT_BLOCKS).
C16_ConcurrentRunsIndependent ==
  \A d \in Docs :
    /\ workflows[d].temp_files \subseteq OwnPaths(d)
    /\ workflows[d].parse_result # None =>
         workflows[d].parse_result.v.content_list = FileBlocks(d)
    /\ (workflows[d].at = "done" /\ ~ workflows[d].ext) =>
         /\ workflows[d].result = Raised("TypeError")
         /\ workflows[d].parse_result # None

\* the step whose output a step function works on
Predecessor(s) == Steps[StepIndex(s)]

\* C17: in every run, fresh or resumed, whenever PARSE_FILE, EXTRACT_BLOCKS
\* or PROCESS_CHUNKS starts executing, the output of its predecessor (file
\* bytes, parse result, block positions) is present in the run's locals.
C17_PredecessorOutputPresent ==
  \A s \in {"PARSE_FILE", "EXTRACT_BLOCKS", "PROCESS_CHUNKS"} :
    pc = Body(s) => StepOutput(Predecessor(s)) # None

\* C18: whenever a run terminates in failure, the document's persisted
\* status at that moment is FAILED; it is never left in PROCESSING.
C18_FailedRunMarksDocumentFailed ==
  \A d \in Docs :
    (workflows[d].at = "done" /\ workflows[d].result.kind = "raised") =>
      documents[d].status = "FAILED"

\* C19: an exception raised by the progress callback stays inside
\* _update_step_status: it is never the error of the run, and the step for
\* which it was raised goes on executing with the status just recorded.
C19_CallbackExceptionContained ==
  cb_raised =>
    /\ result.kind = "raised" => result.error # "CallbackError"
    /\ pc.at \in {"body", "loop"} => step_status[doc_id][pc.step] = "RUNNING"

\* a run whose callback raised has ended with PROCESS_CHUNKS executed and
\* COMPLETED
C19_Witness ==
  /\ cb_raised
  /\ pc = Idle
  /\ "PROCESS_CHUNKS" \in last.executed
  /\ last.status["PROCESS_CHUNKS"] = "COMPLETED"

\* C20: during a run with a callback supplied, the callback is invoked once
\* for each status change of the run's steps: the number of invocations
\* equals the number of status changes.
C20_CallbackOncePerTransition ==
  (runs > 0 /\ callback # "none") => cb_calls = status_changes

C22_StartParseMarksProcessing ==
  (action_reply.kind = "returned" /\ action_reply.action = "start_parse") =>
    \A row \in {action_reply.document, action_reply.persisted} :
      /\ row.status = "PROCESSING"
      /\ row.progress = "0"
      /\ row.progress_msg = MsgStartParse

\* C23: in TaskProcessor, under every interleaving of the producer, the
\* consumers and startup recovery, no task id is in the pending queue more
\* than once, and none is in the queue while a consumer is processing it.
C23_QueueHoldsEachTaskOnceAndNotWhileProcessed ==
  /\ \A i, j \in 1..Len(task_queue) : i # j => task_queue[i] # task_queue[j]
  /\ \A c \in Consumers :
       consumers[c].at # "get" =>
         \A i \in 1..Len(task_queue) : task_queue[i] # consumers[c].task_id

\* C24: when start() has run after a restart and _recover_running_tasks has
\* gone through the table without meeting a full queue, every Task whose
\* persisted status was RUNNING at start() has been put back on the queue
\* (from where a consumer takes it to process it again).
C24_RunningTasksPutBackOnQueue ==
  (restarts > 0 /\ recover.at = "done") => to_recover \subseteq requeued

\* C25: a workflow built by CustomDocumentParsingWorkflow(custom_steps) or
\* create_custom_workflow(step_names) contains exactly the steps named in
\* the list, in a run that has ended, and the run has executed them from
\* the first on.
C25_CustomWorkflowHasExactlyNamedSteps ==
  (built_from # NotCustom /\ wf_pc = "idle" /\ wf_result.kind = "returned") =>
    /\ [i \in 1..Len(steps) |-> steps[i].name] = built_from
    /\ 1 \in wf_started

\* C26: when the same MinerUWorkflow instance has executed a second run, that
\* run has returned a result, and the completed_steps of the result name only
\* steps recorded COMPLETED for the second run's document.
C26_SecondRunResultHoldsOnlyItsOwnState ==
  (pc = Idle /\ doc_id # NoDoc /\ ~ at_start.new) =>
    /\ result.kind = "returned"
    /\ \A i \in 1..Len(result.completed_steps) :
         step_status[doc_id][result.completed_steps[i]] = "COMPLETED"

\* the call execute(..., resume_from = r) is made and its _init_step_status
\* has run
ExecuteCalledWith(rs) ==
  pc = Idle /\ runs' = runs + 1 /\ resume_from' \in rs

\* the call failed with the ValueError of _init_step_status, no step was
\* executed and no recorded status changed
RejectedUnchanged ==
  /\ result' = Raised("ValueError")
  /\ pc' = Idle
  /\ \A s \in StepNames : calls'[s] = 0
  /\ step_status' = step_status

\* C27 (as stated): execute called with a resume_from that is not one of the
\* six step names fails with the ValueError for the invalid step, executes
\* no step and changes no step's recorded status.
C27_InvalidResumeRejected ==
  [][ExecuteCalledWith(ResumeInputs \ (StepNames \cup {NoResume})) => RejectedUnchanged]_vars

\* C27 (amended): the same for a non-empty resume_from that is not one of the
\* six step names; the empty string counts as no resume point.
C27_NonEmptyInvalidResumeRejected ==
  [][ExecuteCalledWith({r \in ResumeInputs \ StepNames : truthy(r)}) => RejectedUnchanged]_vars

\* an instance that holds statuses of an earlier run has been called with an
\* unknown non-empty resume point
C27_Witness ==
  /\ pc = Idle
  /\ resume_from = "BOGUS"
  /\ result = Raised("ValueError")
  /\ ~ at_start.new
  /\ \E s \in StepNames : step_status[doc_id][s] \notin {"NONE", "PENDING"}

\* C28: when PROCESS_CHUNKS, executed in this run, is FAILED (in the model
\* only a failing _create_vector_index makes it so), the run has failed, no
\* block was handled (none embedded, no chunk stored or counted) and the run
\* wrote no chunk_result checkpoint.
C28_IndexFailureFailsStepBeforeAnyBlock ==
  ( /\ doc_id # NoDoc
    /\ calls["PROCESS_CHUNKS"] > 0
    /\ step_status[doc_id]["PROCESS_CHUNKS"] = "FAILED" )
  => /\ pc = Idle
     /\ result.kind = "raised"
     /\ chunk_idx = 0
     /\ chunk_count = 0
     /\ chunk_ids_list = <<>>
     /\ "chunk_result" \in cached_keys(cache, doc_id) => "chunk_result" \in at_start.keys

\* the vector search engine refused create_index in a run that had blocks
\* to process
C28_Witness ==
  /\ pc = Idle
  /\ doc_id # NoDoc
  /\ calls["PROCESS_CHUNKS"] > 0
  /\ step_status[doc_id]["PROCESS_CHUNKS"] = "FAILED"
  /\ result = Raised("Exception")
  /\ ext_failed
  /\ "parse_result" \in cached_keys(cache, doc_id)

\* the loop of PROCESS_CHUNKS takes its next block, one in bs
TakesBlock(bs) ==
  /\ pc = Loop("PROCESS_CHUNKS")
  /\ chunk_idx' = chunk_idx + 1
  /\ parse_result.v.content_list[chunk_idx + 1] \in bs

\* the block taken left no chunk: nothing stored, indexed, listed or counted
NoChunkEmitted ==
  /\ chunk_count' = chunk_count
  /\ chunk_ids_list' = chunk_ids_list
  /\ bodies' = bodies
  /\ index' = index
  /\ next_uuid' = next_uuid

BlankBlocks ==
  {b \in Blocks : b.type \in {"text", "equation", "table"} /\ strip(b.text) = <<>>}

\* the loop step for the next block reaches the call of _get_embedding: the
\* block's position was looked up and its content is not None
EmbeddingRequested ==
  LET b == parse_result.v.content_list[chunk_idx + 1]
  IN /\ get_chunk_info(chunk_idx, block_info_list) = ""
     /\ b.type \in {"text", "table", "equation"}
     /\ extract_text_content(b) # None

CreateCalled(c, d) ==
  /\ callers[c].at \in {"idle", "returned", "raised"}
  /\ callers'[c] # callers[c]
  /\ callers'[c].at \in {"loaded", "raised"}
  /\ callers'[c].doc = d

ChunkIdsStored ==
  /\ chunk_count = Len(chunk_ids_list)
  /\ \A i \in 1..Len(chunk_ids_list) :
       /\ chunk_ids_list[i] \in bodies \cap index
       /\ \A j \in 1..Len(chunk_ids_list) :
            chunk_ids_list[i] = chunk_ids_list[j] => i = j

\* a loop step of PROCESS_CHUNKS that lengthens chunk_ids_list appends one id,
\* whose body and index record that same step wrote, and counts it
ChunkIdAppended ==
  (pc = Loop("PROCESS_CHUNKS") /\ chunk_ids_list' # chunk_ids_list) =>
    \E id \in (bodies' \ bodies) \cap (index' \ index) :
      /\ chunk_ids_list' = Append(chunk_ids_list, id)
      /\ chunk_count' = chunk_count + 1

Submitted(d) ==
  {m.id : m \in {x \in celery_queue : x.args[1] = d}} \cup
  {r.id : r \in {x \in task_runs : x.args[1] = d}}

\* C34: of the create_parse_document_task calls made on one document that
\* allowed parsing, concurrent ones included, at most one submits a parse
\* task (no call moves the document out of PROCESSING again, so every
\* other call is to be refused by the status guard).
C34_AtMostOneCallSubmits ==
  \A d \in Docs : Cardinality(Submitted(d)) <= 1

\* a parse task submitted for document d has been run to its end by a worker
Terminated(d) == \E r \in task_runs : r.args[1] = d

\* C35: a document that create_parse_document_task put into PROCESSING
\* leaves PROCESSING eventually, once its submitted task has terminated.
C35_ProcessingEventuallyLeft ==
  \A d \in Docs :
    (documents[d].status = "PROCESSING" /\ Terminated(d))
      ~> (documents[d].status # "PROCESSING")

\* the submissions of parse_document_task TaskProcessor has made for the
\* Task of document d (_execute_rag_parsing_task passes the workflow
\* config), on the broker or already run
ProcessorSubmissions(d) ==
  {m.id : m \in {x \in celery_queue : x.args = << d, "cfg" >>}} \cup
  {r.id : r \in {x \in task_runs : x.args = << d, "cfg" >>}}

\* C36: in TaskProcessor each PENDING Task causes at most one submission of
\* parse_document_task to Celery, however the producer's polling rounds
\* interleave with the consumers (runs without a restart and in which the
\* recovery of RUNNING tasks re-queued nothing).
C36_PendingTaskSubmittedOnce ==
  (restarts = 0 /\ requeued = {}) =>
    \A d \in ProcDocs : Cardinality(ProcessorSubmissions(d)) <= 1

\* the Celery job the Task row points to has been run by a worker and
\* ended with status st
JobEnded(row, st) ==
  \E r \in task_runs : r.id = row.instance_id /\ r.status = st

\* C37: in TaskProcessor a Task row has status COMPLETED only after its
\* Celery job has finished successfully, and no row whose Celery job
\* failed is COMPLETED.
C37_CompletedOnlyAfterJobSucceeded ==
  \A t \in TaskIds :
    tasks[t].status = "COMPLETED" =>
      /\ tasks[t].instance_id # 0
      /\ JobEnded(tasks[t], "SUCCESS")

RECURSIVE SumChunkNum(_, _)
\* the sum of chunk_num over the rows of the documents in D
SumChunkNum(docs, D) ==
  IF D = {} THEN 0
  ELSE LET d == CHOOSE x \in D : TRUE
       IN docs[d].chunk_num + SumChunkNum(docs, D \ {d})

\* C38: a run that completes its final step, a re-parse or resume of an
\* already finalized document included, leaves the knowledge base's
\* chunk_num equal to the sum of its documents' chunk_num values whenever
\* it was so before the run's final step; starting from an empty knowledge
\* base the two are then equal after any sequence of completed runs.
C38_KbChunkNumIsSumOfDocuments ==
  [][ (finalized' # finalized /\ kb_chunk_num = SumChunkNum(documents, Docs))
        => kb_chunk_num' = SumChunkNum(documents', Docs) ]_vars

====
